---- MODULE Spec2Model ----
(***************************************************************************)
(* A model of the ai-business-scout pipeline agents: the analyst's         *)
(* viability score and ranking, the validator's synthetic metrics and      *)
(* verdict, the template and the LLM idea generators, the scanners'        *)
(* concurrent fetch and ranking, the reports of the run scripts, the       *)
(* BusinessScout pipeline and its report, the entry points' exit codes,    *)
(* the Slack notifier, run_public_pipeline step by step, the validator's   *)
(* choice of platform and its lists across calls.                          *)
(*                                                                         *)
(* Numbers: the code computes in floating point.  Here every quantity is   *)
(* an integer in a fixed unit, named where it is used:                     *)
(*   viability score          tenths            (6.7  is 67)               *)
(*   ctr, conversion_rate     ten-thousandths   (0.03 is 300)              *)
(*   engagement score         thousandths       (6.8  is 6800)             *)
(*   sentiment                hundredths        (0.75 is 75)               *)
(* Texts the code searches (str.lower, "x" in s) are sequences of          *)
(* one-character strings, so that the search is computed, not assumed.     *)
(***************************************************************************)
EXTENDS Integers, Sequences, FiniteSets, TLC

(* ---------------------------------------------------------------- text *)

UpperChars ==
    <<"A","B","C","D","E","F","G","H","I","J","K","L","M","N","O","P","Q",
      "R","S","T","U","V","W","X","Y","Z">>

LowerChars ==
    <<"a","b","c","d","e","f","g","h","i","j","k","l","m","n","o","p","q",
      "r","s","t","u","v","w","x","y","z">>

\* str.lower() on one character.
LowerChar(c) ==
    IF \E i \in 1..Len(UpperChars) : UpperChars[i] = c
    THEN LowerChars[CHOOSE i \in 1..Len(UpperChars) : UpperChars[i] = c]
    ELSE c

\* str.lower()
Lower(s) == [i \in 1..Len(s) |-> LowerChar(s[i])]

\* Python's "sub in s" on strings: sub occurs as a contiguous substring.
Contains(sub, s) ==
    \E i \in 0..(Len(s) - Len(sub)) : SubSeq(s, i + 1, i + Len(sub)) = sub

TextLow ==
    <<"l","o","w">>

TextModerate ==
    <<"m","o","d","e","r","a","t","e">>

\* analyst.py _analyze_competition: the four competition levels.
Competitors ==
    <<
      <<"m","o","d","e","r","a","t","e"," ","-"," ","s","e","v","e","r","a",
        "l"," ","e","s","t","a","b","l","i","s","h","e","d"," ","p","l","a",
        "y","e","r","s"," ","b","u","t"," ","n","o"," ","d","o","m","i","n",
        "a","n","t"," ","l","e","a","d","e","r">>,
      <<"l","o","w"," ","-"," ","e","m","e","r","g","i","n","g"," ","m","a",
        "r","k","e","t"," ","w","i","t","h"," ","f","e","w"," ","d","i","r",
        "e","c","t"," ","c","o","m","p","e","t","i","t","o","r","s">>,
      <<"h","i","g","h"," ","-"," ","c","r","o","w","d","e","d"," ","m","a",
        "r","k","e","t"," ","r","e","q","u","i","r","i","n","g"," ","s","t",
        "r","o","n","g"," ","d","i","f","f","e","r","e","n","t","i","a","t",
        "i","o","n">>,
      <<"m","o","d","e","r","a","t","e"," ","-"," ","n","i","c","h","e"," ",
        "m","a","r","k","e","t"," ","w","i","t","h"," ","s","p","e","c","i",
        "a","l","i","z","e","d"," ","c","o","m","p","e","t","i","t","o","r",
        "s">>
    >>

\* analyst.py _analyze_competition: what follows the level in each of the
\* three landscape templates.
LandscapeTails ==
    <<
      <<"K","e","y"," ","d","i","f","f","e","r","e","n","t","i","a","t","o",
        "r","s"," ","n","e","e","d","e","d",":"," ","u","n","i","q","u","e",
        " ","A","I"," ","c","a","p","a","b","i","l","i","t","i","e","s",",",
        " ","s","u","p","e","r","i","o","r"," ","U","X",","," ","a","n","d",
        " ","f","a","s","t","e","r"," ","t","i","m","e","-","t","o","-","v",
        "a","l","u","e","."," ","M","a","r","k","e","t"," ","f","r","a","g",
        "m","e","n","t","a","t","i","o","n"," ","p","r","e","s","e","n","t",
        "s"," ","o","p","p","o","r","t","u","n","i","t","y"," ","f","o","r",
        " ","c","o","n","s","o","l","i","d","a","t","i","o","n",".">>,
      <<"I","n","c","u","m","b","e","n","t","s"," ","f","o","c","u","s"," ",
        "o","n"," ","e","n","t","e","r","p","r","i","s","e",","," ","l","e",
        "a","v","i","n","g"," ","S","M","B"," ","s","e","g","m","e","n","t",
        " ","u","n","d","e","r","s","e","r","v","e","d","."," ","W","i","n",
        "d","o","w"," ","o","f"," ","o","p","p","o","r","t","u","n","i","t",
        "y"," ","e","x","i","s","t","s"," ","f","o","r"," ","1","8","-","2",
        "4"," ","m","o","n","t","h","s",".">>,
      <<"E","x","i","s","t","i","n","g"," ","s","o","l","u","t","i","o","n",
        "s"," ","a","r","e"," ","l","e","g","a","c","y"," ","s","y","s","t",
        "e","m","s"," ","w","i","t","h"," ","p","o","o","r"," ","u","s","e",
        "r"," ","e","x","p","e","r","i","e","n","c","e","."," ","M","o","d",
        "e","r","n",","," ","u","s","e","r","-","f","r","i","e","n","d","l",
        "y"," ","a","p","p","r","o","a","c","h"," ","c","o","u","l","d"," ",
        "c","a","p","t","u","r","e"," ","s","i","g","n","i","f","i","c","a",
        "n","t"," ","m","a","r","k","e","t"," ","s","h","a","r","e",".">>
    >>

LandscapePrefix ==
    <<"C","o","m","p","e","t","i","t","i","o","n"," ","l","e","v","e","l",
      ":"," ">>

LandscapeSep ==
    <<"."," ">>

\* Landscape texts for the score taken alone: the scenario's text, upper
\* case, "low" inside another word, neither word, both words, empty.
SampleLandscapes ==
    {
      <<"m","o","d","e","r","a","t","e"," ","c","o","m","p","e","t","i","t",
        "i","o","n">>,
      <<"L","O","W"," ","b","a","r","r","i","e","r","s"," ","t","o"," ","e",
        "n","t","r","y">>,
      <<"M","o","d","e","r","a","t","e",","," ","b","u","t"," ","f","o","l",
        "l","o","w","i","n","g"," ","l","e","a","d","e","r","s">>,
      <<"h","i","g","h"," ","-"," ","c","r","o","w","d","e","d">>,
      <<"L","o","w"," ","t","o"," ","m","o","d","e","r","a","t","e">>,
      <<>>
    }

ScenarioLandscape ==
    <<"m","o","d","e","r","a","t","e"," ","c","o","m","p","e","t","i","t",
      "i","o","n">>

(* ------------------------------------------------------------- helpers *)

Min(a, b) == IF a <= b THEN a ELSE b

Max(a, b) == IF a >= b THEN a ELSE b

\* A list of n entries (what it holds is never read, only its length).
ListOfLen(n) == [i \in 1..n |-> "entry"]

\* bool(x) of None or a string
Truthy(x) == x \notin { "None", "" }

\* x or y
Or(x, y) == IF Truthy(x) THEN x ELSE y

(* -------------------------------------------------------------- bounds *)

\* SWOT lists of every length up to MaxSwotLen, and of LongSwotLen entries.
MaxSwotLen == 8

LongSwotLen == 100

\* Ideas handed to one analyze_ideas call.
MaxIdeas == 4

\* get_top_ideas limits 0..MaxLimit.
MaxLimit == 5

\* Trends handed to one generate_ideas call.
MaxTrends == 3

\* generate_ideas' max_ideas is 0..MaxIdeasArg.
MaxIdeasArg == 3

\* A source has 0..MaxFetched trends for a fetcher of PublicWebScanner.
MaxFetched == 2

\* get_top_trends' limit is 0..MaxTopLimit.
MaxTopLimit == 3

\* Hacker News has 0..MaxStories stories with a title.
MaxStories == 9

\* run_full_pipeline's max_ideas is 0..MaxPipelineIdeas.
MaxPipelineIdeas == 2

\* A SlackNotifier is called up to MaxNotifications times.
MaxNotifications == 2

\* validate_ideas is called up to MaxValidateCalls times on one agent.
MaxValidateCalls == 3

VARIABLES
    \* one call of BusinessAnalystAgent._calculate_viability_score
    vs_pc, vs_swot, vs_competitive, vs_market_size, vs_score,
    \* BusinessAnalystAgent: analyze_ideas' position, argument and local
    \* list, self.analyses, the returned list, the last get_top_ideas call
    an_pc, an_ideas, an_local, an_analyses, an_ret, an_top,
    \* one call of MarketValidatorAgent._calculate_confidence
    cf_pc, cf_metrics, cf_level,
    \* one call of MarketValidatorAgent._run_and_analyze_campaign: the
    \* campaign, the matching analysis (a list of at most one: None is <<>>),
    \* the random draws, and the ValidationResult returned
    mm_pc, mm_campaign, mm_analysis, mm_draw, mm_result,
    \* IdeaGeneratorAgent: generate_ideas' position and arguments, self.ideas
    \* and the returned list
    tg_pc, tg_trends, tg_max, tg_ideas, tg_ret,
    \* PublicIdeaGenerator: generate_ideas' position and arguments, the
    \* selected trends, what the service did for each generation, gather's
    \* results, whether a generation completed before an earlier one,
    \* self.ideas and the returned list
    pg_pc, pg_trends, pg_max, pg_top, pg_outcomes, pg_results, pg_reordered,
    pg_ideas, pg_ret,
    \* WebScannerAgent or PublicWebScanner: scan_all_sources' position, which
    \* of the two agents runs, its tasks, what happened to each fetcher,
    \* gather's results, whether a fetcher completed before an earlier one,
    \* self.trends and the returned list
    sc_pc, sc_agent, sc_cfg, sc_tasks, sc_outcomes, sc_results, sc_reordered,
    sc_trends, sc_ret,
    \* the last call of get_top_trends: its limit and what it returned
    sc_top,
    \* a script that writes a report: its position, which script it is, and
    \* the report it built
    rp_pc, rp_entry, rp_report,
    \* BusinessScout.run_full_pipeline: its position, its arguments, its
    \* locals trends, ideas, analyses, validations and report, what it
    \* returned, and the stages it has run so far, in order
    pl_pc, pl_max_ideas, pl_save_report, pl_trends, pl_ideas, pl_analyses,
    pl_validations, pl_report, pl_ret, pl_log,
    \* an entry point (scheduler.py, src/main.py): its position, which one it
    \* is, the AI provider keys of its environment, whether the pipeline
    \* raised, whether the exception left the entry point, and the exit code
    \* of the process (-1 while it runs)
    en_pc, en_entry, en_keys, en_raised, en_propagated, en_exit,
    \* a SlackNotifier: whether it is constructed, the constructor's
    \* argument and the configured URL, its webhook_url and enabled, and
    \* what each notify_* call so far did
    sl_pc, sl_argument, sl_config, sl_webhook_url, sl_enabled, sl_history,
    \* a stepwise run of run_public_pipeline: its position, environment, the numbers of trends, ideas and analyses, the verdicts of its validations, the phases run, and whether the report file is written
    pr_pc, pr_env, pr_trends, pr_ideas, pr_analyses, pr_validations, pr_phases, pr_report_file,
    \* a call of _select_platform: the idea's target market and the platform returned
    sp_pc, sp_target, sp_platform,
    \* a MarketValidatorAgent: its campaigns and validations, the ideas of each validate_ideas call so far, what the last call returned, and what get_promising_ideas returned since
    va_campaigns, va_validations, va_calls, va_returned, va_promising

viabilityVars == <<vs_pc, vs_swot, vs_competitive, vs_market_size, vs_score>>

analystVars == <<an_pc, an_ideas, an_local, an_analyses, an_ret, an_top>>

confidenceVars == <<cf_pc, cf_metrics, cf_level>>

metricsVars == <<mm_pc, mm_campaign, mm_analysis, mm_draw, mm_result>>

templateGenVars == <<tg_pc, tg_trends, tg_max, tg_ideas, tg_ret>>

publicGenVars ==
    <<pg_pc, pg_trends, pg_max, pg_top, pg_outcomes, pg_results, pg_reordered,
      pg_ideas, pg_ret>>

scanVars ==
    <<sc_pc, sc_agent, sc_cfg, sc_tasks, sc_outcomes, sc_results, sc_reordered,
      sc_trends, sc_ret, sc_top>>

scriptVars == <<rp_pc, rp_entry, rp_report>>

pipelineVars ==
    <<pl_pc, pl_max_ideas, pl_save_report, pl_trends, pl_ideas, pl_analyses,
      pl_validations, pl_report, pl_ret, pl_log>>

entryVars == <<en_pc, en_entry, en_keys, en_raised, en_propagated, en_exit>>

slackVars ==
    <<sl_pc, sl_argument, sl_config, sl_webhook_url, sl_enabled, sl_history>>

publicRunVars ==
    <<pr_pc, pr_env, pr_trends, pr_ideas, pr_analyses, pr_validations, pr_phases, pr_report_file>>

platformVars ==
    <<sp_pc, sp_target, sp_platform>>

validatorVars ==
    <<va_campaigns, va_validations, va_calls, va_returned, va_promising>>

vars ==
    <<viabilityVars, analystVars, confidenceVars, metricsVars,
      templateGenVars, publicGenVars, scanVars, scriptVars, pipelineVars,
      entryVars, slackVars,
      publicRunVars,
      platformVars,
      validatorVars>>

(* ------------------------------------------------------------- analyst *)

\* analyst.py _estimate_market_size: two of the four texts.
MarketSizes ==
    { "TAM: $5-10B globally, SAM: $500M-1B, SOM: $50-100M in first 3 years",
      "TAM: $10B+ globally, SAM: $1-2B, SOM: $100-200M in first 3 years" }

CalculateViabilityScoreNoCap(swot, competitive, market_size) ==
    LET strength_bonus == Len(swot.strengths) * 3
        weakness_penalty == Min(Len(swot.weaknesses) * 2, 15)
        opportunity_bonus == Min(Len(swot.opportunities) * 2, 10)
        competitive_bonus ==
            IF Contains(TextLow, Lower(competitive)) THEN 10
            ELSE IF Contains(TextModerate, Lower(competitive)) THEN 5
            ELSE 0
    IN  50 + strength_bonus - weakness_penalty + opportunity_bonus
           + competitive_bonus

CalculateViabilityScoreModerateFirst(swot, competitive, market_size) ==
    LET strength_bonus == Min(Len(swot.strengths) * 3, 20)
        weakness_penalty == Min(Len(swot.weaknesses) * 2, 15)
        opportunity_bonus == Min(Len(swot.opportunities) * 2, 10)
        competitive_bonus ==
            IF Contains(TextModerate, Lower(competitive)) THEN 5
            ELSE IF Contains(TextLow, Lower(competitive)) THEN 10
            ELSE 0
        score == 50 + strength_bonus - weakness_penalty + opportunity_bonus
                    + competitive_bonus
    IN  Max(0, Min(100, score))

\* _calculate_viability_score, in tenths: 5.0 is 50, 0.3 per strength is 3.
CalculateViabilityScore(swot, competitive, market_size) ==
    LET base_score == 50
        strength_bonus == Min(Len(swot.strengths) * 3, 20)
        weakness_penalty == Min(Len(swot.weaknesses) * 2, 15)
        opportunity_bonus == Min(Len(swot.opportunities) * 2, 10)
        competitive_bonus ==
            IF Contains(TextLow, Lower(competitive)) THEN 10
            ELSE IF Contains(TextModerate, Lower(competitive)) THEN 5
            ELSE 0
        score == base_score + strength_bonus - weakness_penalty
                    + opportunity_bonus + competitive_bonus
    IN  Max(0, Min(100, score))

\* _generate_swot: the same four lists of four statements for every idea.
GenerateSwot(idea) ==
    [ strengths |->
        << "Addresses clear market pain point", "Scalable SaaS model",
           "Low initial development costs", "Strong value proposition" >>,
      weaknesses |->
        << "Unproven market demand", "Limited brand recognition",
           "Dependency on third-party platforms", "Small initial team" >>,
      opportunities |->
        << "Growing market trend", "Potential for rapid user acquisition",
           "Expansion to adjacent markets", "Strategic partnerships possible" >>,
      threats |->
        << "Established competitors may enter space",
           "Market preferences could shift", "Regulatory changes",
           "Economic downturn affecting B2B spending" >> ]

\* _analyze_competition: random.choice picks a level c and a template t.
AnalyzeCompetition(c, t) ==
    LandscapePrefix \o Competitors[c] \o LandscapeSep \o LandscapeTails[t]

\* _estimate_market_size: random.choice among texts the score never reads
\* (SpecViability varies it); the first of them stands for the draw.
EstimateMarketSize(idea) ==
    "TAM: $5-10B globally, SAM: $500M-1B, SOM: $50-100M in first 3 years"

\* _analyze_single_idea lines 65-70, for each outcome (c, t) of the random
\* choices of _analyze_competition: the score the analysis gets.  The SWOT
\* and the market size are the same for every idea, so the table is too.
SingleIdeaScore ==
    [ c \in 1..Len(Competitors), t \in 1..Len(LandscapeTails) |->
        CalculateViabilityScore(GenerateSwot([id |-> 0]),
                                AnalyzeCompetition(c, t),
                                EstimateMarketSize([id |-> 0])) ]

\* _analyze_single_idea with its random choices c and t.  Of the
\* BusinessAnalysis it builds, idea_id and viability_score are kept: the
\* SWOT, the texts and the fixed lists are read by nothing after the score.
AnalyzeSingleIdea(idea, c, t) ==
    [ idea_id |-> idea.id, viability_score |-> SingleIdeaScore[c, t] ]

\* list.sort(key=viability_score, reverse=True): descending and stable, an
\* analysis goes after every one already placed whose score is not lower.
InsertByViability(sorted, a) ==
    LET k == Cardinality({ i \in 1..Len(sorted) :
                             sorted[i].viability_score >= a.viability_score })
    IN  SubSeq(sorted, 1, k) \o <<a>> \o SubSeq(sorted, k + 1, Len(sorted))

RECURSIVE SortByViability(_)
SortByViability(list) ==
    IF list = <<>> THEN <<>>
    ELSE InsertByViability(SortByViability(SubSeq(list, 1, Len(list) - 1)),
                           list[Len(list)])

\* list[:limit] for limit >= 0
Prefix(list, limit) == SubSeq(list, 1, Min(limit, Len(list)))

SwotInputs ==
    LET lens == (0..MaxSwotLen) \cup {LongSwotLen}
    IN  { [ strengths |-> ListOfLen(s), weaknesses |-> ListOfLen(w),
            opportunities |-> ListOfLen(o), threats |-> ListOfLen(t) ] :
          s \in lens, w \in lens, o \in lens, t \in {0, 4, LongSwotLen} }

ViabilityInit ==
    /\ vs_pc = "called"
    /\ vs_swot \in SwotInputs
    /\ vs_competitive \in SampleLandscapes
    /\ vs_market_size \in MarketSizes
    /\ vs_score = 0

ViabilityIdle ==
    /\ vs_pc = "idle"
    /\ vs_swot = GenerateSwot([id |-> 0])
    /\ vs_competitive = <<>>
    /\ vs_market_size = ""
    /\ vs_score = 0

CalculateViability ==
    /\ vs_pc = "called"
    /\ vs_score' = CalculateViabilityScore(vs_swot, vs_competitive,
                                           vs_market_size)
    /\ vs_pc' = "returned"
    /\ UNCHANGED <<vs_swot, vs_competitive, vs_market_size>>

\* BusinessAnalystAgent.__init__
AnalystInit ==
    /\ an_pc = "idle"
    /\ an_ideas = <<>>
    /\ an_local = <<>>
    /\ an_analyses = <<>>
    /\ an_ret = <<>>
    /\ an_top = [called |-> FALSE, limit |-> 0, result |-> <<>>]

IdeaInputs == { [i \in 1..n |-> [id |-> i]] : n \in 0..MaxIdeas }

\* analyze_ideas, entry: analyses = []
AnalyzeIdeasStart ==
    /\ an_pc = "idle"
    /\ \E ideas \in IdeaInputs : an_ideas' = ideas
    /\ an_local' = <<>>
    /\ an_pc' = "loop"
    /\ UNCHANGED <<an_analyses, an_ret, an_top>>

\* analyze_ideas, one iteration: analyses.append(await _analyze_single_idea)
AnalyzeIdeasStep ==
    /\ an_pc = "loop"
    /\ Len(an_local) < Len(an_ideas)
    /\ \E c \in 1..Len(Competitors), t \in 1..Len(LandscapeTails) :
         an_local' = Append(an_local,
             AnalyzeSingleIdea(an_ideas[Len(an_local) + 1], c, t))
    /\ UNCHANGED <<an_pc, an_ideas, an_analyses, an_ret, an_top>>

AnalyzeIdeasFinishUnsorted(list) == [stored |-> SortByViability(list), returned |-> list]

\* analyze_ideas, after the loop: self.analyses = analyses; the sort is in
\* place on the one list both names refer to, which is then returned.
AnalyzeIdeasFinish(list) ==
    LET sorted == SortByViability(list)
    IN  [stored |-> sorted, returned |-> sorted]

AnalyzeIdeasReturn ==
    /\ an_pc = "loop"
    /\ Len(an_local) = Len(an_ideas)
    /\ an_analyses' = AnalyzeIdeasFinish(an_local).stored
    /\ an_ret' = AnalyzeIdeasFinish(an_local).returned
    /\ an_pc' = "done"
    /\ UNCHANGED <<an_ideas, an_local, an_top>>

\* get_top_ideas(limit), called once analyze_ideas has returned:
\* self.analyses[:limit]
GetTopIdeas ==
    /\ an_pc = "done"
    /\ \E limit \in 0..MaxLimit :
         an_top' = [called |-> TRUE, limit |-> limit,
                    result |-> Prefix(an_analyses, limit)]
    /\ UNCHANGED <<an_pc, an_ideas, an_local, an_analyses, an_ret>>

(* ----------------------------------------------------------- validator *)

\* _calculate_confidence
CalculateConfidenceEither(metrics) ==
    IF metrics.conversions >= 50 \/ metrics.clicks >= 500 THEN "high"
    ELSE IF metrics.conversions >= 20 \/ metrics.clicks >= 200 THEN "medium"
    ELSE "low"

CalculateConfidence(metrics) ==
    IF metrics.conversions >= 50 /\ metrics.clicks >= 500 THEN "high"
    ELSE IF metrics.conversions >= 20 /\ metrics.clicks >= 200 THEN "medium"
    ELSE "low"

\* Counts on, next to and between the thresholds of _calculate_confidence.
CountSamples ==
    {0, 19, 20, 21, 49, 50, 51, 199, 200, 201, 499, 500, 501, 3000}

ConfidenceInit ==
    /\ cf_pc = "called"
    /\ cf_metrics \in [conversions : CountSamples, clicks : CountSamples]
    /\ cf_level = "none"

ConfidenceIdle ==
    /\ cf_pc = "idle"
    /\ cf_metrics = [conversions |-> 0, clicks |-> 0]
    /\ cf_level = "none"

CalculateConfidenceCall ==
    /\ cf_pc = "called"
    /\ cf_level' = CalculateConfidence(cf_metrics)
    /\ cf_pc' = "returned"
    /\ UNCHANGED cf_metrics

\* min(hi, max(lo, x))
Clamp(x, lo, hi) == Min(hi, Max(lo, x))

IntDivUp(x, d) == (x + d - 1) \div d

\* int(x / d) for x >= 0, d > 0
IntDiv(x, d) == x \div d

EngagementScoreUnclamped(ctr, conversion_rate, conversions) ==
    6 * ctr + 4 * conversion_rate + Min(60 * conversions, 3000)

\* _generate_mock_metrics lines 213-219, in thousandths, of a ctr and a
\* conversion_rate in ten-thousandths: (ctr/0.05)*3 is 6 per unit,
\* (conversion_rate/0.1)*4 is 4 per unit, min(conversions/50, 1.0)*3 is
\* min(60*conversions, 3000).
EngagementScore(ctr, conversion_rate, conversions) ==
    LET engagement_score ==
            6 * ctr + 4 * conversion_rate + Min(60 * conversions, 3000)
    IN  Min(10000, Max(0, engagement_score))

GenerateMockMetricsCtrNotFloored(campaign, analysis, d) ==
    LET base_performance ==
            IF analysis # <<>>
            THEN 7 * analysis[1].viability_score + 300
            ELSE 500
        performance_factor == base_performance * d.uniform
        impressions == IntDiv(d.randint * performance_factor, 1000)
        ctr == Min(1500, (d.gauss_ctr * performance_factor) \div 100000)
        clicks == IntDiv(impressions * ctr, 10000)
        conversion_rate ==
            Min(2000, Max(100, (d.gauss_conv * performance_factor) \div 100000))
        conversions == IntDiv(clicks * conversion_rate, 10000)
        cost == campaign.budget
        cpc == IF clicks > 0 THEN IntDiv(cost * 10000, clicks) ELSE 0
    IN  [ campaign_id |-> campaign.id,
          impressions |-> impressions,
          clicks |-> clicks,
          conversions |-> conversions,
          cost |-> cost,
          ctr |-> ctr,
          cpc |-> cpc,
          conversion_rate |-> conversion_rate,
          engagement_score |->
              EngagementScore(ctr, conversion_rate, conversions) ]

\* _generate_mock_metrics.  The draws: d.uniform is random.uniform(0.8, 1.2)
\* in hundredths, d.randint is random.randint(50000, 200000) in hundreds (so
\* that the products stay below 2^31), d.gauss_ctr and d.gauss_conv are the
\* two random.gauss values in ten-thousandths.
\* base_performance is in thousandths and performance_factor in units of
\* 1/100000; a rate is rounded down onto its grid; cpc is in
\* ten-thousandths of the budget's unit.
GenerateMockMetrics(campaign, analysis, d) ==
    LET base_performance ==
            IF analysis # <<>>
            THEN 7 * analysis[1].viability_score + 300
            ELSE 500
        performance_factor == base_performance * d.uniform
        impressions == IntDiv(d.randint * performance_factor, 1000)
        ctr == Min(1500, Max(50, (d.gauss_ctr * performance_factor) \div 100000))
        clicks == IntDiv(impressions * ctr, 10000)
        conversion_rate ==
            Min(2000, Max(100, (d.gauss_conv * performance_factor) \div 100000))
        conversions == IntDiv(clicks * conversion_rate, 10000)
        cost == campaign.budget
        cpc == IF clicks > 0 THEN IntDiv(cost * 10000, clicks) ELSE 0
    IN  [ campaign_id |-> campaign.id,
          impressions |-> impressions,
          clicks |-> clicks,
          conversions |-> conversions,
          cost |-> cost,
          ctr |-> ctr,
          cpc |-> cpc,
          conversion_rate |-> conversion_rate,
          engagement_score |->
              EngagementScore(ctr, conversion_rate, conversions) ]

IsIdeaPromisingWithAnalysis(metrics, analysis) ==
    /\ analysis # <<>>
    /\ metrics.ctr >= 150
    /\ metrics.conversion_rate >= 200
    /\ metrics.engagement_score >= 5000

IsIdeaPromisingByRatesAlone(metrics, analysis) ==
    /\ metrics.ctr >= 150
    /\ metrics.conversion_rate >= 200

\* _is_idea_promising: min_ctr 0.015, min_conversion_rate 0.02,
\* min_engagement_score 5.0
IsIdeaPromising(metrics, analysis) ==
    LET min_ctr == 150
        min_conversion_rate == 200
        min_engagement_score == 5000
    IN  /\ metrics.ctr >= min_ctr
        /\ metrics.conversion_rate >= min_conversion_rate
        /\ metrics.engagement_score >= min_engagement_score

\* _generate_insights: an insight on the ctr (above 0.04, below 0.01), on
\* the conversion rate (above 0.08, below 0.03), on the cpc (below 1.0,
\* above 5.0; cpc is in ten-thousandths), and always the platform's.
GenerateInsights(metrics, campaign) ==
    (IF metrics.ctr > 400 THEN <<"Strong CTR">>
     ELSE IF metrics.ctr < 100 THEN <<"Low CTR">> ELSE <<>>)
    \o (IF metrics.conversion_rate > 800 THEN <<"High conversion rate">>
        ELSE IF metrics.conversion_rate < 300 THEN <<"Low conversion rate">>
        ELSE <<>>)
    \o (IF metrics.cpc < 10000 THEN <<"Low CPC">>
        ELSE IF metrics.cpc > 50000 THEN <<"High CPC">> ELSE <<>>)
    \o <<"platform showed engagement score">>

GenerateRecommendationsByVerdictThresholds(is_promising, metrics) ==
    IF is_promising
    THEN << "Proceed with MVP development", "Scale ad spend gradually",
            "A/B test different messaging", "Set up email nurture campaign",
            "Consider expanding to additional ad platforms" >>
    ELSE <<"Results inconclusive">>
         \o (IF metrics.ctr < 150 THEN <<"Improve ad copy">> ELSE <<>>)
         \o (IF metrics.conversion_rate < 200
             THEN <<"Redesign landing page">> ELSE <<>>)
         \o << "Conduct user interviews", "Test alternative value propositions",
                "Consider narrowing or broadening target market" >>

\* _generate_recommendations: five fixed lines for a promising idea;
\* otherwise the first line, "Improve ad copy" for a ctr below 0.015,
\* "Redesign landing page" for a conversion rate below 0.03, and three fixed
\* lines.
GenerateRecommendations(is_promising, metrics) ==
    IF is_promising
    THEN << "Proceed with MVP development", "Scale ad spend gradually",
            "A/B test different messaging", "Set up email nurture campaign",
            "Consider expanding to additional ad platforms" >>
    ELSE <<"Results inconclusive">>
         \o (IF metrics.ctr < 150 THEN <<"Improve ad copy">> ELSE <<>>)
         \o (IF metrics.conversion_rate < 300
             THEN <<"Redesign landing page">> ELSE <<>>)
         \o << "Conduct user interviews", "Test alternative value propositions",
                "Consider narrowing or broadening target market" >>

\* _run_and_analyze_campaign
RunAndAnalyzeCampaign(campaign, idea, analysis, d) ==
    LET metrics == GenerateMockMetrics(campaign, analysis, d)
    IN  [ idea_id |-> idea.id,
          metrics |-> metrics,
          is_promising |-> IsIdeaPromising(metrics, analysis),
          confidence_level |-> CalculateConfidence(metrics),
          key_insights |-> GenerateInsights(metrics, campaign),
          recommendations |->
              GenerateRecommendations(IsIdeaPromising(metrics, analysis),
                                      metrics) ]

\* The draws of one campaign: the ends and the middle of uniform and
\* randint; gauss values below zero, around the mean and far above it.
Uniforms == {80, 100, 120}

RandInts == {500, 1000, 2000}

GaussCtr == {-200, 100, 300, 600, 650, 1300, 4000}

GaussConv == {-100, 200, 400, 1000, 2500, 5000}

Draws ==
    [ uniform : Uniforms, randint : RandInts,
      gauss_ctr : GaussCtr, gauss_conv : GaussConv ]

\* No matching analysis, or one whose viability is a bound of the schema or
\* a score the analyst produces.
AnalysisInputs ==
    { <<>> } \cup
    { << [idea_id |-> 1, viability_score |-> v] >> : v \in {0, 62, 67, 72, 100} }

\* validate_ideas' default budget_per_idea, and _create_campaign's id.
CreateCampaign(idea, budget) ==
    [ id |-> idea.id, idea_id |-> idea.id, budget |-> budget ]

NoResult ==
    RunAndAnalyzeCampaign(CreateCampaign([id |-> 0], 0), [id |-> 0], <<>>,
        [uniform |-> 100, randint |-> 500, gauss_ctr |-> 0, gauss_conv |-> 0])

MetricsInit ==
    /\ mm_pc = "called"
    /\ mm_campaign = CreateCampaign([id |-> 1], 500)
    /\ mm_analysis \in AnalysisInputs
    /\ mm_draw \in Draws
    /\ mm_result = NoResult

MetricsIdle ==
    /\ mm_pc = "idle"
    /\ mm_campaign = CreateCampaign([id |-> 0], 0)
    /\ mm_analysis = <<>>
    /\ mm_draw = [uniform |-> 100, randint |-> 500, gauss_ctr |-> 0,
                  gauss_conv |-> 0]
    /\ mm_result = NoResult

RunAndAnalyzeCampaignCall ==
    /\ mm_pc = "called"
    /\ mm_result' = RunAndAnalyzeCampaign(mm_campaign,
                        [id |-> mm_campaign.idea_id], mm_analysis, mm_draw)
    /\ mm_pc' = "returned"
    /\ UNCHANGED <<mm_campaign, mm_analysis, mm_draw>>

(* ----------------------------------------------------- idea generators *)

\* Trends as the generators read them: id, keywords, engagement, and the
\* sentiment in hundredths.  Two share their first keyword, one has no
\* keyword, two have the same ranking score, and the one with the highest
\* engagement has the lowest score.
TrendPool ==
    { [id |-> "t1", keywords |-> <<"AI", "coding">>,
       engagement |-> 15000, sentiment |-> 75],
      [id |-> "t2", keywords |-> <<>>,
       engagement |-> 17500, sentiment |-> 50],
      [id |-> "t3", keywords |-> <<"personal finance", "budgeting">>,
       engagement |-> 50000, sentiment |-> -100],
      [id |-> "t4", keywords |-> <<"AI", "agents">>,
       engagement |-> 1000, sentiment |-> 90] }

\* The lists of up to n distinct trends of a pool.
RECURSIVE TrendListsOf(_, _)
TrendListsOf(pool, n) ==
    IF n = 0 THEN { <<>> }
    ELSE LET shorter == TrendListsOf(pool, n - 1)
             longest == { l \in shorter : Len(l) = n - 1 }
             Unused(l) == { t \in pool :
                              \A i \in 1..Len(l) : l[i] # t }
         IN  shorter \cup
             UNION { { Append(l, t) : t \in Unused(l) } : l \in longest }

TrendListsUpTo(n) == TrendListsOf(TrendPool, n)

TrendInputs == TrendListsUpTo(MaxTrends)

\* The trends the template generator is given: those of the pool, one
\* whose first keyword no template has, and one whose first keyword is a
\* template's key in other case.
TemplateTrendPool ==
    TrendPool \cup
    { [id |-> "t5", keywords |-> <<"blockchain", "web3">>,
       engagement |-> 2000, sentiment |-> 10],
      [id |-> "t6", keywords |-> <<"Remote Work", "tools">>,
       engagement |-> 8500, sentiment |-> 30] }

TemplateTrendInputs == TrendListsOf(TemplateTrendPool, MaxTrends)

\* The characters of a keyword that the model's trends have as their first.
Spell(keyword) ==
    CASE keyword = "AI" ->
             <<"A","I">>
      [] keyword = "remote work" ->
             <<"r","e","m","o","t","e"," ","w","o","r","k">>
      [] keyword = "sustainability" ->
             <<"s","u","s","t","a","i","n","a","b","i","l","i","t","y">>
      [] keyword = "personal finance" ->
             <<"p","e","r","s","o","n","a","l"," ","f","i","n","a","n","c","e">>
      [] keyword = "keyword" ->
             <<"k","e","y","w","o","r","d">>
      [] keyword = "blockchain" ->
             <<"b","l","o","c","k","c","h","a","i","n">>
      [] keyword = "Remote Work" ->
             <<"R","e","m","o","t","e"," ","W","o","r","k">>
      [] OTHER -> <<>>

\* str.upper() on one character.
UpperChar(c) ==
    IF \E i \in 1..Len(LowerChars) : LowerChars[i] = c
    THEN UpperChars[CHOOSE i \in 1..Len(LowerChars) : LowerChars[i] = c]
    ELSE c

IsLetter(c) ==
    \E i \in 1..Len(LowerChars) : LowerChars[i] = c \/ UpperChars[i] = c

\* str.title(): a letter that follows no letter in upper case, every other
\* letter in lower case.
TitleCase(s) ==
    [ i \in 1..Len(s) |->
        IF i = 1 \/ ~IsLetter(s[i - 1]) THEN UpperChar(s[i])
        ELSE LowerChar(s[i]) ]

\* _generate_idea_from_trends, idea_templates: the keys and the titles.
IdeaTemplateKeys ==
    << "AI", "remote work", "sustainability", "personal finance" >>

IdeaTemplateTitles ==
    << "AI-Powered Code Review Assistant", "Hybrid Team Sync Platform",
       "Carbon Footprint Tracker for Developers", "AI Budget Coach" >>

\* A title is what a template key's chars are followed by: the template's
\* title after nothing, or " Solution Platform" after theme.title().
GenericTitle(theme) ==
    [ prefix |-> TitleCase(Spell(theme)), text |-> " Solution Platform" ]

\* _generate_idea_from_trends line 141: idea_templates.get(theme.lower(),
\* generic), the title of what it finds.
TemplateTitle(theme) ==
    LET matching == { k \in 1..Len(IdeaTemplateKeys) :
                        Spell(IdeaTemplateKeys[k]) = Lower(Spell(theme)) }
    IN  IF matching # {}
        THEN [ prefix |-> <<>>,
               text |-> IdeaTemplateTitles[CHOOSE k \in matching : TRUE] ]
        ELSE GenericTitle(theme)

\* The ids of a list of trends: [t.id for t in trends]
TrendIds(trends) == [i \in 1..Len(trends) |-> trends[i].id]

\* _group_trends_by_theme: a dict from the first keyword to the trends that
\* have it, in order of first insertion; a trend without keywords is
\* skipped.  The dict is the list of its items.
RECURSIVE GroupTrendsByTheme(_)
GroupTrendsByTheme(trends) ==
    IF trends = <<>> THEN <<>>
    ELSE LET groups == GroupTrendsByTheme(SubSeq(trends, 1, Len(trends) - 1))
             trend == trends[Len(trends)]
         IN  IF trend.keywords = <<>> THEN groups
             ELSE LET theme == trend.keywords[1]
                  IN  IF \E g \in 1..Len(groups) : groups[g].theme = theme
                      THEN [ g \in 1..Len(groups) |->
                               IF groups[g].theme = theme
                               THEN [groups[g] EXCEPT
                                       !.trends = Append(@, trend)]
                               ELSE groups[g] ]
                      ELSE Append(groups, [theme |-> theme,
                                           trends |-> <<trend>>])

\* _generate_idea_from_trends lines 151-163: the n-th idea made (uuid4 gives
\* it an id of its own) from the trends of one theme.
GenerateIdeaFromTrends(n, theme, trends) ==
    [ id |-> n, theme |-> theme, title |-> TemplateTitle(theme),
      source_trends |-> TrendIds(trends) ]

TemplateGenerateIdeasOfLastGroups(trends, max_ideas) ==
    LET groups == GroupTrendsByTheme(trends)
        trend_groups ==
            SubSeq(groups, Max(1, Len(groups) - max_ideas + 1), Len(groups))
    IN  [ n \in 1..Len(trend_groups) |->
            GenerateIdeaFromTrends(n, trend_groups[n].theme,
                                   trend_groups[n].trends) ]

\* IdeaGeneratorAgent.generate_ideas: one idea for each of the first
\* max_ideas groups.
TemplateGenerateIdeas(trends, max_ideas) ==
    LET trend_groups == Prefix(GroupTrendsByTheme(trends), max_ideas)
    IN  [ n \in 1..Len(trend_groups) |->
            GenerateIdeaFromTrends(n, trend_groups[n].theme,
                                   trend_groups[n].trends) ]

\* IdeaGeneratorAgent.__init__
TemplateGenInit ==
    /\ tg_pc = "idle"
    /\ tg_trends = <<>>
    /\ tg_max = 0
    /\ tg_ideas = <<>>
    /\ tg_ret = <<>>

\* IdeaGeneratorAgent.generate_ideas(trends, max_ideas), max_ideas >= 0
TemplateGenerate ==
    /\ tg_pc = "idle"
    /\ \E trends \in TemplateTrendInputs, max_ideas \in 0..MaxIdeasArg :
         /\ tg_trends' = trends
         /\ tg_max' = max_ideas
         /\ tg_ideas' = TemplateGenerateIdeas(trends, max_ideas)
         /\ tg_ret' = TemplateGenerateIdeas(trends, max_ideas)
    /\ tg_pc' = "done"

\* _select_top_trends line 65: engagement * (1 + sentiment), in hundredths
TrendScore(trend) == trend.engagement * (100 + trend.sentiment)

\* list.sort(reverse=True, key=score): descending and stable
InsertByScore(sorted, trend) ==
    LET k == Cardinality({ i \in 1..Len(sorted) :
                             TrendScore(sorted[i]) >= TrendScore(trend) })
    IN  SubSeq(sorted, 1, k) \o <<trend>> \o SubSeq(sorted, k + 1, Len(sorted))

RECURSIVE SortByScore(_)
SortByScore(trends) ==
    IF trends = <<>> THEN <<>>
    ELSE InsertByScore(SortByScore(SubSeq(trends, 1, Len(trends) - 1)),
                       trends[Len(trends)])

InsertByEngagement(sorted, trend) ==
    LET k == Cardinality({ i \in 1..Len(sorted) :
                             sorted[i].engagement >= trend.engagement })
    IN  SubSeq(sorted, 1, k) \o <<trend>> \o SubSeq(sorted, k + 1, Len(sorted))

RECURSIVE SortByEngagement(_)
SortByEngagement(trends) ==
    IF trends = <<>> THEN <<>>
    ELSE InsertByEngagement(SortByEngagement(SubSeq(trends, 1, Len(trends) - 1)),
                            trends[Len(trends)])

SelectTopTrendsByEngagement(trends, limit) ==
    Prefix(SortByEngagement(trends), limit)

\* _select_top_trends
SelectTopTrends(trends, limit) == Prefix(SortByScore(trends), limit)

\* What the text-generation service does for one request: the request
\* fails, or it answers with text that is no JSON, with JSON that is a list,
\* with a JSON object whose title is null, with a JSON object of the
\* BusinessIdea fields, or with that object inside a ```json fence.
LlmOutcomes ==
    { "request_error", "not_json", "json_list", "json_object_null_title",
      "json_object", "fenced_json_object" }

\* GitHubLLM.generate_json: generate's exception is passed on; the fence is
\* stripped; json.loads raises on text that is no JSON.
GenerateJson(outcome) ==
    CASE outcome = "request_error" ->
             [raised |-> TRUE, value |-> "none"]
      [] outcome = "not_json" ->
             [raised |-> TRUE, value |-> "none"]
      [] outcome = "json_list" ->
             [raised |-> FALSE, value |-> "list"]
      [] outcome = "json_object_null_title" ->
             [raised |-> FALSE, value |-> "object_null_title"]
      [] outcome = "json_object" ->
             [raised |-> FALSE, value |-> "object"]
      [] outcome = "fenced_json_object" ->
             [raised |-> FALSE, value |-> "object"]

\* _generate_idea_from_trend lines 134-144: the fallback idea.
FallbackIdea(n, trend) ==
    [ id |-> n,
      value_proposition |-> "Solve key challenges in this emerging market",
      source_trends |-> <<trend.id>> ]

GenerateIdeaFromTrendNoFallback(n, trend, outcome) ==
    LET response == GenerateJson(outcome)
    IN  IF response.raised \/ response.value # "object"
        THEN [kind |-> "exception", idea |-> FallbackIdea(n, trend)]
        ELSE [kind |-> "idea",
              idea |-> [ id |-> n,
                         value_proposition |-> "response value_proposition",
                         source_trends |-> <<trend.id>> ]]

\* _generate_idea_from_trend, the n-th started, as asyncio.gather records it:
\* what it returned, or the exception it raised.  response.get on a list
\* raises AttributeError and BusinessIdea(title=None) raises a
\* ValidationError; both, like the errors of generate_json, are caught by
\* "except Exception", which returns the fallback idea.
GenerateIdeaFromTrend(n, trend, outcome) ==
    LET response == GenerateJson(outcome)
    IN  IF response.raised \/ response.value # "object"
        THEN [kind |-> "idea", idea |-> FallbackIdea(n, trend)]
        ELSE [kind |-> "idea",
              idea |-> [ id |-> n,
                         value_proposition |-> "response value_proposition",
                         source_trends |-> <<trend.id>> ]]

Pending == [kind |-> "pending", idea |-> FallbackIdea(0, [id |-> "none"])]

\* generate_ideas lines 52-53: the results that are a BusinessIdea, in the
\* order of the tasks.
RECURSIVE ValidIdeas(_)
ValidIdeas(results) ==
    IF results = <<>> THEN <<>>
    ELSE LET rest == ValidIdeas(SubSeq(results, 1, Len(results) - 1))
             last == results[Len(results)]
         IN  IF last.kind = "idea" THEN Append(rest, last.idea) ELSE rest

\* PublicIdeaGenerator.__init__
PublicGenInit ==
    /\ pg_pc = "idle"
    /\ pg_trends = <<>>
    /\ pg_max = 0
    /\ pg_top = <<>>
    /\ pg_outcomes = <<>>
    /\ pg_results = <<>>
    /\ pg_reordered = FALSE
    /\ pg_ideas = <<>>
    /\ pg_ret = <<>>

\* PublicIdeaGenerator.generate_ideas lines 46-50: select the trends and
\* start one generation per trend.
PublicGenerateStart ==
    /\ pg_pc = "idle"
    /\ \E trends \in TrendInputs, max_ideas \in 0..MaxIdeasArg :
         /\ pg_trends' = trends
         /\ pg_max' = max_ideas
         /\ pg_top' = SelectTopTrends(trends, max_ideas)
         /\ pg_outcomes' = [i \in 1..Len(SelectTopTrends(trends, max_ideas))
                              |-> "none"]
         /\ pg_results' = [i \in 1..Len(SelectTopTrends(trends, max_ideas))
                              |-> Pending]
    /\ pg_pc' = "gather"
    /\ UNCHANGED <<pg_reordered, pg_ideas, pg_ret>>

\* One generation completes, in any order; gather keeps its result at the
\* position of its task.
PublicGenerateTask ==
    /\ pg_pc = "gather"
    /\ \E i \in 1..Len(pg_results), outcome \in LlmOutcomes :
         /\ pg_results[i].kind = "pending"
         /\ pg_outcomes' = [pg_outcomes EXCEPT ![i] = outcome]
         /\ pg_results' = [pg_results EXCEPT
                             ![i] = GenerateIdeaFromTrend(i, pg_top[i], outcome)]
         /\ pg_reordered' =
              (pg_reordered \/ \E j \in 1..(i - 1) : pg_results[j].kind = "pending")
    /\ UNCHANGED <<pg_pc, pg_trends, pg_max, pg_top, pg_ideas, pg_ret>>

\* generate_ideas lines 50-58: gather returns once every generation has
\* completed; the ideas among the results are stored and returned.
PublicGenerateReturn ==
    /\ pg_pc = "gather"
    /\ \A i \in 1..Len(pg_results) : pg_results[i].kind # "pending"
    /\ pg_ideas' = ValidIdeas(pg_results)
    /\ pg_ret' = ValidIdeas(pg_results)
    /\ pg_pc' = "done"
    /\ UNCHANGED <<pg_trends, pg_max, pg_top, pg_outcomes, pg_results,
                   pg_reordered>>

(* ------------------------------------------------------------ scanners *)

\* The trend a fetcher of WebScannerAgent returns (its only one), or the
\* i-th trend a fetcher of PublicWebScanner builds from what it fetched.
\* uuid4 gives every trend an id of its own: the fetcher and i.
FetchedTrend(fetcher, i) ==
    CASE fetcher = "twitter" ->
             [ id |-> <<fetcher, i>>, source |-> "twitter",
               sentiment |-> 75, engagement |-> 15000,
               keywords |-> <<"AI", "coding", "productivity", "developers">> ]
      [] fetcher = "reddit" ->
             [ id |-> <<fetcher, i>>, source |-> "reddit",
               sentiment |-> 30, engagement |-> 8500,
               keywords |-> <<"remote work", "collaboration", "tools",
                              "productivity">> ]
      [] fetcher = "news" ->
             [ id |-> <<fetcher, i>>, source |-> "news",
               sentiment |-> 85, engagement |-> 25000,
               keywords |-> <<"sustainability", "green tech", "climate",
                              "eco-friendly">> ]
      [] fetcher = "google_trends" ->
             [ id |-> <<fetcher, i>>, source |-> "google_trends",
               sentiment |-> 65, engagement |-> 50000,
               keywords |-> <<"personal finance", "budgeting",
                              "money management", "apps">> ]
      [] fetcher = "hacker_news" ->
             [ id |-> <<fetcher, i>>, source |-> "news",
               sentiment |-> 70, engagement |-> 100 * i,
               keywords |-> <<"keyword">> ]
      [] fetcher = "reddit_public" ->
             [ id |-> <<fetcher, i>>, source |-> "reddit",
               sentiment |-> 60, engagement |-> 100 * i,
               keywords |-> <<"keyword">> ]
      [] fetcher = "github_trending" ->
             [ id |-> <<fetcher, i>>, source |-> "google_trends",
               sentiment |-> 80, engagement |-> 100 * i,
               keywords |-> <<"keyword">> ]
      [] fetcher = "news_api" ->
             [ id |-> <<fetcher, i>>, source |-> "news",
               sentiment |-> 70, engagement |-> 1000,
               keywords |-> <<"keyword">> ]

\* How many trends a fetcher of PublicWebScanner returns at most:
\* trends[:3], trends[:5], repos[:5], articles[:5].
FetcherCap(fetcher) == IF fetcher = "hacker_news" THEN 3 ELSE 5

\* What a credential of the configuration is: os.getenv's None for a
\* variable that is not set, the empty string, or a value.
Credentials == { "None", "", "token" }

\* config.TWITTER_BEARER_TOKEN, config.REDDIT_CLIENT_ID, config.NEWS_API_KEY
ScannerConfigs ==
    [ twitter : Credentials, reddit : Credentials, news : Credentials ]

NoCredentials == [ twitter |-> "None", reddit |-> "None", news |-> "None" ]

WebTasksUngated(cfg) == <<"twitter", "reddit", "news", "google_trends">>

\* WebScannerAgent.scan_all_sources lines 32-45: the fetchers it starts.
WebTasks(cfg) ==
    (IF Truthy(cfg.twitter) THEN <<"twitter">> ELSE <<>>)
    \o (IF Truthy(cfg.reddit) THEN <<"reddit">> ELSE <<>>)
    \o (IF Truthy(cfg.news) THEN <<"news">> ELSE <<>>)
    \o <<"google_trends">>

\* PublicWebScanner.scan_all_sources lines 33-40: the fetchers it starts.
PublicTasks(news_api_key) ==
    <<"hacker_news", "reddit_public", "github_trending">>
    \o (IF news_api_key THEN <<"news_api">> ELSE <<>>)

\* What happens to one fetcher: whether a request or the parsing of an
\* answer fails, and how many trends its source has for it.
FetchOutcomes(agent) ==
    IF agent = "web"
    THEN [ failed : BOOLEAN, fetched : {1} ]
    ELSE [ failed : BOOLEAN, fetched : 0..MaxFetched ]

\* One fetcher's result as asyncio.gather records it.  A fetcher of
\* WebScannerAgent returns its list, and an exception in it is its result; a
\* fetcher of PublicWebScanner catches every exception and returns [].
Fetch(agent, fetcher, outcome) ==
    LET trends == [ i \in 1..outcome.fetched |-> FetchedTrend(fetcher, i) ]
    IN  IF agent = "web"
        THEN IF outcome.failed
             THEN [kind |-> "exception", trends |-> <<>>]
             ELSE [kind |-> "list", trends |-> trends]
        ELSE IF outcome.failed
             THEN [kind |-> "list", trends |-> <<>>]
             ELSE [kind |-> "list",
                   trends |-> Prefix(trends, FetcherCap(fetcher))]

RECURSIVE FlattenLaterFirst(_)
FlattenLaterFirst(results) ==
    IF results = <<>> THEN <<>>
    ELSE LET rest == FlattenLaterFirst(SubSeq(results, 1, Len(results) - 1))
             result == results[Len(results)]
         IN  IF result.kind = "list" THEN result.trends \o rest ELSE rest

\* scan_all_sources, "Flatten results": the lists among the results,
\* concatenated in the order of the tasks; an exception is printed.
RECURSIVE Flatten(_)
Flatten(results) ==
    IF results = <<>> THEN <<>>
    ELSE LET rest == Flatten(SubSeq(results, 1, Len(results) - 1))
             result == results[Len(results)]
         IN  IF result.kind = "list" THEN rest \o result.trends ELSE rest

ScanCollectPropagating(results) ==
    IF \E i \in 1..Len(results) : results[i].kind = "exception"
    THEN [raised |-> TRUE, trends |-> <<>>]
    ELSE [raised |-> FALSE, trends |-> Flatten(results)]

\* scan_all_sources from gather's return on: gather(return_exceptions=True)
\* raises nothing, and the flattened list is the outcome.
ScanCollect(results) == [raised |-> FALSE, trends |-> Flatten(results)]

\* WebScannerAgent.__init__, PublicWebScanner.__init__
ScanInit ==
    /\ sc_pc = "idle"
    /\ sc_agent = "none"
    /\ sc_cfg = NoCredentials
    /\ sc_tasks = <<>>
    /\ sc_outcomes = <<>>
    /\ sc_results = <<>>
    /\ sc_reordered = FALSE
    /\ sc_trends = <<>>
    /\ sc_ret = <<>>
    /\ sc_top = [called |-> FALSE, limit |-> 0, result |-> <<>>]

NotFetched == [failed |-> FALSE, fetched |-> 0]

PendingFetch == [kind |-> "pending", trends |-> <<>>]

\* WebScannerAgent.scan_all_sources lines 30-52, for the credentials set in
\* the configuration: with no task it returns [] at once.
WebScanStart ==
    /\ sc_pc = "idle"
    /\ \E cfg \in ScannerConfigs :
         /\ sc_cfg' = cfg
         /\ sc_tasks' = WebTasks(cfg)
         /\ sc_outcomes' = [i \in 1..Len(WebTasks(cfg)) |-> NotFetched]
         /\ sc_results' = [i \in 1..Len(WebTasks(cfg)) |-> PendingFetch]
         /\ sc_pc' = IF WebTasks(cfg) = <<>> THEN "done" ELSE "gather"
    /\ sc_agent' = "web"
    /\ UNCHANGED <<sc_reordered, sc_trends, sc_ret, sc_top>>

\* PublicWebScanner.scan_all_sources lines 31-43, with or without a
\* news_api_key.
PublicScanStart ==
    /\ sc_pc = "idle"
    /\ \E news_api_key \in BOOLEAN :
         /\ sc_cfg' = [ NoCredentials EXCEPT
                         !.news = IF news_api_key THEN "token" ELSE "None" ]
         /\ sc_tasks' = PublicTasks(news_api_key)
         /\ sc_outcomes' = [i \in 1..Len(PublicTasks(news_api_key))
                              |-> NotFetched]
         /\ sc_results' = [i \in 1..Len(PublicTasks(news_api_key))
                              |-> PendingFetch]
    /\ sc_agent' = "public"
    /\ sc_pc' = "gather"
    /\ UNCHANGED <<sc_reordered, sc_trends, sc_ret, sc_top>>

\* One fetcher completes, in any order; gather keeps its result at the
\* position of its task.
ScanFetchComplete ==
    /\ sc_pc = "gather"
    /\ \E i \in 1..Len(sc_results), outcome \in FetchOutcomes(sc_agent) :
         /\ sc_results[i].kind = "pending"
         /\ sc_outcomes' = [sc_outcomes EXCEPT ![i] = outcome]
         /\ sc_results' = [sc_results EXCEPT
                             ![i] = Fetch(sc_agent, sc_tasks[i], outcome)]
         /\ sc_reordered' =
              (sc_reordered \/ \E j \in 1..(i - 1) : sc_results[j].kind = "pending")
    /\ UNCHANGED <<sc_pc, sc_agent, sc_cfg, sc_tasks, sc_trends, sc_ret, sc_top>>

\* scan_all_sources once every fetcher has completed: self.trends =
\* all_trends; return all_trends.
ScanReturn ==
    /\ sc_pc = "gather"
    /\ \A i \in 1..Len(sc_results) : sc_results[i].kind # "pending"
    /\ IF ScanCollect(sc_results).raised
       THEN /\ sc_pc' = "raised"
            /\ UNCHANGED <<sc_trends, sc_ret>>
       ELSE /\ sc_pc' = "done"
            /\ sc_trends' = ScanCollect(sc_results).trends
            /\ sc_ret' = ScanCollect(sc_results).trends
    /\ UNCHANGED <<sc_agent, sc_cfg, sc_tasks, sc_outcomes, sc_results,
                   sc_reordered, sc_top>>

InsertTiesFirst(sorted, trend) ==
    LET k == Cardinality({ i \in 1..Len(sorted) :
                             sorted[i].engagement > trend.engagement })
    IN  SubSeq(sorted, 1, k) \o <<trend>> \o SubSeq(sorted, k + 1, Len(sorted))

RECURSIVE SortTiesReversed(_)
SortTiesReversed(trends) ==
    IF trends = <<>> THEN <<>>
    ELSE InsertTiesFirst(SortTiesReversed(SubSeq(trends, 1, Len(trends) - 1)),
                         trends[Len(trends)])

TopTrendsTiesReversed(trends, limit) == Prefix(SortTiesReversed(trends), limit)

\* get_top_trends of both scanners: sorted(self.trends, key=lambda t:
\* t.engagement, reverse=True)[:limit]; sorted is stable, under reverse too.
TopTrends(trends, limit) == Prefix(SortByEngagement(trends), limit)

\* WebScannerAgent.get_top_trends, PublicWebScanner.get_top_trends, called
\* after a scan with a limit of 0..MaxTopLimit; sorted builds a new list.
GetTopTrends ==
    /\ sc_pc = "done"
    /\ \E limit \in 0..MaxTopLimit :
         sc_top' = [called |-> TRUE, limit |-> limit,
                    result |-> TopTrends(sc_trends, limit)]
    /\ UNCHANGED <<sc_pc, sc_agent, sc_cfg, sc_tasks, sc_outcomes, sc_results,
                   sc_reordered, sc_trends, sc_ret>>

(* ------------------------------------------------- the scripts' reports *)

\* run_live_minimal.scan_hacker_news reads story_ids[:8].
StoryCap == 8

\* run_live_minimal.main lists sorted_trends[:5] and makes ideas of
\* sorted_trends[:3]; run_demo and run_public pass max_ideas=3.
ListedTrends == 5

ScriptIdeas == 3

\* The engagement (score + 2 * descendants) of the i-th story that has a
\* title.
StoryEngagement(i) == <<30, 120, 30, 500, 7, 120, 0, 80, 9>>[((i - 1) % 9) + 1]

\* run_live_minimal.scan_hacker_news, the source having m stories with a
\* title: one trend for each of the first eight.
ScanHackerNews(m) ==
    [ i \in 1..Min(m, StoryCap) |-> [id |-> i, engagement |-> StoryEngagement(i)] ]

\* round(x, 1) of a value in hundredths, in tenths.
RoundTenths(x) == (x + 5) \div 10

\* run_live_minimal.analyze_idea: viability_score in tenths, of base_score
\* and the draw of uniform(-0.5, 0.5), both in hundredths.
LiveAnalyzeIdea(d) == RoundTenths(Min(1000, d.base_score + d.uniform_viability))

\* run_live_minimal.validate_idea: engagement in hundredths, promising from
\* 6.5 on.
LiveValidateIdea(viability_score, d) ==
    LET engagement_score ==
            Max(100, Min(1000, 9 * viability_score + d.uniform_engagement))
    IN  [ engagement_score |-> RoundTenths(engagement_score),
          is_promising |-> engagement_score >= 650 ]

\* The draws of one idea of run_live_minimal: base_score without and with
\* its keyword bonuses, the ends of the two uniform draws.
LiveDraws ==
    [ base_score : {600, 830}, uniform_viability : {-50, 24, 50},
      uniform_engagement : {-100, 100} ]

\* The draws of one campaign of run_demo's validator: a weak and a strong
\* campaign, on a viability of uniform(6.0, 8.5).
DemoDraws ==
    { [viability |-> 60, uniform |-> 80, randint |-> 500,
       gauss_ctr |-> -200, gauss_conv |-> -100],
      [viability |-> 85, uniform |-> 120, randint |-> 2000,
       gauss_ctr |-> 600, gauss_conv |-> 1000] }

\* A report's validations carry the engagement score as the script writes
\* it: in tenths in run_live_minimal and demo_public, in thousandths in
\* run_demo.
\* How many of the validations are promising:
\* sum(1 for v in validations if v.is_promising)
PromisingCount(validations) ==
    Cardinality({ i \in 1..Len(validations) : validations[i].is_promising })

NoReport ==
    [ summary |-> [trends |-> 0, ideas |-> 0, promising |-> 0],
      lists_trends |-> FALSE, trends |-> <<>>, ideas |-> <<>>,
      validations |-> <<>> ]

\* run_live_minimal.main's report for the trends found and the draws of its
\* ideas: 'trends_analyzed': len(trends), 'trends': sorted_trends[:5].
LiveReport(trends, draws) ==
    LET sorted_trends == SortByEngagement(trends)
        ideas == [ i \in 1..Min(ScriptIdeas, Len(trends)) |->
                     [id |-> i, source_trend |-> sorted_trends[i].id] ]
        analyses == [ i \in 1..Len(ideas) |-> LiveAnalyzeIdea(draws[i]) ]
        validations == [ i \in 1..Len(ideas) |->
                           LiveValidateIdea(analyses[i], draws[i]) ]
        promising_count == PromisingCount(validations)
    IN  [ summary |-> [trends |-> Len(trends), ideas |-> Len(ideas),
                       promising |-> promising_count],
          lists_trends |-> TRUE,
          trends |-> Prefix(sorted_trends, ListedTrends),
          ideas |-> ideas,
          validations |-> [ i \in 1..Len(ideas) |->
                              [idea_id |-> i,
                               engagement_score |->
                                   validations[i].engagement_score,
                               is_promising |-> validations[i].is_promising] ] ]

\* run_demo.run_pipeline's report_data: the four mock trends, an idea for
\* each of trends[:3], the counts, and one entry per idea; it lists no
\* trends.
DemoReport(draws) ==
    LET trends == [ i \in 1..4 |-> [id |-> i] ]
        ideas == [ i \in 1..Min(ScriptIdeas, Len(trends)) |->
                     [id |-> i, source_trend |-> trends[i].id] ]
        validations ==
            [ i \in 1..Len(ideas) |->
                LET analysis == << [idea_id |-> i,
                                    viability_score |-> draws[i].viability] >>
                    metrics == GenerateMockMetrics(
                                   CreateCampaign(ideas[i], 500), analysis,
                                   draws[i])
                IN  [ idea_id |-> i,
                      engagement_score |-> metrics.engagement_score,
                      is_promising |-> IsIdeaPromising(metrics, analysis) ] ]
        promising_count == PromisingCount(validations)
    IN  [ summary |-> [trends |-> Len(trends), ideas |-> Len(ideas),
                       promising |-> promising_count],
          lists_trends |-> FALSE,
          trends |-> <<>>,
          ideas |-> ideas,
          validations |-> validations ]

\* demo_public's report_data: the literal summary, mock_trends, mock_ideas
\* and mock_validations.
DemoPublicReport ==
    [ summary |-> [trends |-> 15, ideas |-> 3, promising |-> 2],
      lists_trends |-> TRUE,
      trends |-> [ i \in 1..3 |-> [id |-> i, engagement |-> 0] ],
      ideas |-> [ i \in 1..3 |-> [id |-> i, source_trend |-> i] ],
      validations |->
          << [idea_id |-> 1, engagement_score |-> 78, is_promising |-> TRUE],
             [idea_id |-> 2, engagement_score |-> 52, is_promising |-> FALSE],
             [idea_id |-> 3, engagement_score |-> 81, is_promising |-> TRUE] >> ]

ScriptInit ==
    /\ rp_pc = "idle"
    /\ rp_entry = "none"
    /\ rp_report = NoReport

\* run_live_minimal.main, the source having 0..MaxStories stories: without
\* a trend it returns before any report.
RunLiveMinimal ==
    /\ rp_pc = "idle"
    /\ rp_entry' = "run_live_minimal"
    /\ \E m \in 0..MaxStories :
         LET trends == ScanHackerNews(m)
         IN  IF trends = <<>>
             THEN rp_pc' = "no_trends" /\ rp_report' = NoReport
             ELSE /\ rp_pc' = "done"
                  /\ \E draws \in [1..Min(ScriptIdeas, Len(trends)) -> LiveDraws] :
                       rp_report' = LiveReport(trends, draws)

\* run_demo.run_pipeline
RunDemoPipeline ==
    /\ rp_pc = "idle"
    /\ rp_entry' = "run_demo"
    /\ rp_pc' = "done"
    /\ \E draws \in [1..ScriptIdeas -> DemoDraws] :
         rp_report' = DemoReport(draws)

\* demo_public's main
RunDemoPublic ==
    /\ rp_pc = "idle"
    /\ rp_entry' = "demo_public"
    /\ rp_pc' = "done"
    /\ rp_report' = DemoPublicReport

\* run_public.run_public_pipeline, with or without GITHUB_TOKEN and with
\* the trends the scan found: it returns early without the token and
\* without a trend; otherwise its validation loop reads
\* validation.engagement_score, which a ValidationResult does not have, and
\* the AttributeError ends the run before the report is built.
RunPublicPipeline ==
    /\ rp_pc = "idle"
    /\ rp_entry' = "run_public"
    /\ rp_report' = NoReport
    /\ \E github_token \in BOOLEAN, found \in 0..MaxStories :
         rp_pc' = IF ~github_token THEN "no_token"
                  ELSE IF found = 0 THEN "no_trends"
                  ELSE "raised"

(* ------------------------------------------------ BusinessScout pipeline *)

\* The draws of one campaign in a run of the pipeline: a weak and a strong
\* campaign.
PipelineDraws ==
    { [uniform |-> 80, randint |-> 500, gauss_ctr |-> -200, gauss_conv |-> -100],
      [uniform |-> 120, randint |-> 2000, gauss_ctr |-> 600, gauss_conv |-> 1000] }

\* WebScannerAgent.scan_all_sources as one call: the credentials of the
\* configuration, and for each fetcher whether it raises.
ScanAllSources(cfg, fails) ==
    ScanCollect([ i \in 1..Len(WebTasks(cfg)) |->
                    Fetch("web", WebTasks(cfg)[i],
                          [failed |-> fails[i], fetched |-> 1]) ])

\* BusinessAnalystAgent.analyze_ideas as one call, draws[i] being the random
\* choices of the i-th _analyze_single_idea.
AnalyzeIdeas(ideas, draws) ==
    AnalyzeIdeasFinish([ i \in 1..Len(ideas) |->
                           AnalyzeSingleIdea(ideas[i], draws[i].c, draws[i].t) ]
                      ).returned

\* validate_ideas line 55: next((a for a in analyses if a.idea_id ==
\* idea.id), None), as a list of no or one analysis.
AnalysisOf(analyses, idea) ==
    LET found == { k \in 1..Len(analyses) : analyses[k].idea_id = idea.id }
    IN  IF found = {} THEN <<>>
        ELSE << analyses[CHOOSE k \in found : \A j \in found : k <= j] >>

ValidateIdeasFirstOnly(ideas, analyses, budget_per_idea, draws) ==
    [ i \in 1..Min(1, Len(ideas)) |->
        RunAndAnalyzeCampaign(CreateCampaign(ideas[i], budget_per_idea),
                              ideas[i], AnalysisOf(analyses, ideas[i]),
                              draws[i]) ]

\* MarketValidatorAgent.validate_ideas as one call: for each idea its
\* analysis, its campaign and the validation of that campaign.
ValidateIdeas(ideas, analyses, budget_per_idea, draws) ==
    [ i \in 1..Len(ideas) |->
        RunAndAnalyzeCampaign(CreateCampaign(ideas[i], budget_per_idea),
                              ideas[i], AnalysisOf(analyses, ideas[i]),
                              draws[i]) ]

\* f"{x:.1f}" of an engagement score: thousandths rounded to tenths.
FormatEngagement(x) == (x + 50) \div 100

NoTitle == [prefix |-> <<>>, text |-> ""]

\* The lines of top_recommendations: the header with its two counts, an
\* idea's line with its title and two scores, or the message that no idea
\* was validated.
HeaderLine(promising, total) ==
    [ kind |-> "header", promising |-> promising, total |-> total,
      title |-> NoTitle, viability |-> 0, engagement |-> 0 ]

IdeaLine(idea, analysis, validation) ==
    [ kind |-> "idea", promising |-> 0, total |-> 0,
      title |-> idea.title, viability |-> analysis.viability_score,
      engagement |-> FormatEngagement(validation.metrics.engagement_score) ]

NoIdeaLine ==
    [ kind |-> "no_idea", promising |-> 0, total |-> 0,
      title |-> NoTitle, viability |-> 0, engagement |-> 0 ]

\* [v for v in validations if v.is_promising]
RECURSIVE PromisingValidations(_)
PromisingValidations(validations) ==
    IF validations = <<>> THEN <<>>
    ELSE LET rest == PromisingValidations(
                         SubSeq(validations, 1, Len(validations) - 1))
             v == validations[Len(validations)]
         IN  IF v.is_promising THEN Append(rest, v) ELSE rest

\* next(x for x in list if x.<field> = id), which the code calls only where
\* there is one.
FirstWithId(list, id) ==
    list[CHOOSE k \in 1..Len(list) :
           /\ list[k].id = id
           /\ \A j \in 1..(k - 1) : list[j].id # id]

FirstOfIdea(list, idea_id) ==
    list[CHOOSE k \in 1..Len(list) :
           /\ list[k].idea_id = idea_id
           /\ \A j \in 1..(k - 1) : list[j].idea_id # idea_id]

TopRecommendationsOfAll(ideas, analyses, validations) ==
    IF PromisingValidations(validations) # <<>>
    THEN << HeaderLine(Len(PromisingValidations(validations)), Len(validations)) >>
         \o [ k \in 1..Len(validations) |->
                IdeaLine(FirstWithId(ideas, validations[k].idea_id),
                         FirstOfIdea(analyses, validations[k].idea_id),
                         validations[k]) ]
    ELSE << NoIdeaLine >>

\* _generate_report lines 102-123
TopRecommendations(ideas, analyses, validations) ==
    LET promising_validations == PromisingValidations(validations)
    IN  IF promising_validations # <<>>
        THEN << HeaderLine(Len(promising_validations), Len(validations)) >>
             \o [ k \in 1..Len(promising_validations) |->
                    LET validation == promising_validations[k]
                        idea == FirstWithId(ideas, validation.idea_id)
                        analysis == FirstOfIdea(analyses, idea.id)
                    IN  IdeaLine(idea, analysis, validation) ]
        ELSE << NoIdeaLine >>

\* BusinessScout._generate_report
GenerateReport(trends, ideas, analyses, validations) ==
    [ trends_found |-> trends,
      ideas_generated |-> ideas,
      analyses |-> analyses,
      validations |-> validations,
      top_recommendations |-> TopRecommendations(ideas, analyses, validations) ]

\* No report: what run_full_pipeline has before _generate_report, and the
\* None it returns without trends.
NoScoutReport ==
    [ trends_found |-> <<>>, ideas_generated |-> <<>>, analyses |-> <<>>,
      validations |-> <<>>, top_recommendations |-> <<>> ]

\* BusinessScout.__init__, and run_full_pipeline not yet called
PipelineInit ==
    /\ pl_pc = "idle"
    /\ pl_max_ideas = 0
    /\ pl_save_report = FALSE
    /\ pl_trends = <<>>
    /\ pl_ideas = <<>>
    /\ pl_analyses = <<>>
    /\ pl_validations = <<>>
    /\ pl_report = NoScoutReport
    /\ pl_ret = "pending"
    /\ pl_log = <<>>

\* run_full_pipeline is called, with max_ideas of 0..MaxPipelineIdeas.
PipelineCall ==
    /\ pl_pc = "idle"
    /\ \E max_ideas \in 0..MaxPipelineIdeas, save_report \in BOOLEAN :
         /\ pl_max_ideas' = max_ideas
         /\ pl_save_report' = save_report
    /\ pl_pc' = "scan"
    /\ UNCHANGED <<pl_trends, pl_ideas, pl_analyses, pl_validations,
                   pl_report, pl_ret, pl_log>>

PipelineAfterScanAlwaysOn(trends) == "generate"

\* run_full_pipeline lines 64-66: if not trends: return None
PipelineAfterScan(trends) == IF trends = <<>> THEN "returned" ELSE "generate"

\* Phase 1: trends = await self.scanner.scan_all_sources()
PipelineScan ==
    /\ pl_pc = "scan"
    /\ \E cfg \in ScannerConfigs :
         \E fails \in [1..Len(WebTasks(cfg)) -> BOOLEAN] :
            /\ pl_trends' = ScanAllSources(cfg, fails).trends
            /\ pl_pc' = PipelineAfterScan(ScanAllSources(cfg, fails).trends)
            /\ pl_ret' = IF PipelineAfterScan(ScanAllSources(cfg, fails).trends)
                            = "returned"
                         THEN "None" ELSE pl_ret
    /\ pl_log' = Append(pl_log, "scan")
    /\ UNCHANGED <<pl_max_ideas, pl_save_report, pl_ideas, pl_analyses,
                   pl_validations, pl_report>>

\* Phase 2: ideas = await self.generator.generate_ideas(trends, max_ideas)
PipelineGenerate ==
    /\ pl_pc = "generate"
    /\ pl_ideas' = TemplateGenerateIdeas(pl_trends, pl_max_ideas)
    /\ pl_log' = Append(pl_log, "generate")
    /\ pl_pc' = "analyze"
    /\ UNCHANGED <<pl_max_ideas, pl_save_report, pl_trends, pl_analyses,
                   pl_validations, pl_report, pl_ret>>

\* Phase 3: analyses = await self.analyst.analyze_ideas(ideas)
PipelineAnalyze ==
    /\ pl_pc = "analyze"
    /\ \E draws \in [1..Len(pl_ideas) ->
                       [c : 1..Len(Competitors), t : 1..Len(LandscapeTails)]] :
         pl_analyses' = AnalyzeIdeas(pl_ideas, draws)
    /\ pl_log' = Append(pl_log, "analyze")
    /\ pl_pc' = "validate"
    /\ UNCHANGED <<pl_max_ideas, pl_save_report, pl_trends, pl_ideas,
                   pl_validations, pl_report, pl_ret>>

\* Phase 4: validations = await self.validator.validate_ideas(...)
PipelineValidate ==
    /\ pl_pc = "validate"
    /\ \E draws \in [1..Len(pl_ideas) -> PipelineDraws] :
         pl_validations' = ValidateIdeas(pl_ideas, pl_analyses, 500, draws)
    /\ pl_log' = Append(pl_log, "validate")
    /\ pl_pc' = "report"
    /\ UNCHANGED <<pl_max_ideas, pl_save_report, pl_trends, pl_ideas,
                   pl_analyses, pl_report, pl_ret>>

\* report = self._generate_report(...); self._display_summary(report)
PipelineReport ==
    /\ pl_pc = "report"
    /\ pl_report' = GenerateReport(pl_trends, pl_ideas, pl_analyses,
                                   pl_validations)
    /\ pl_log' = Append(pl_log, "report")
    /\ pl_pc' = "save"
    /\ UNCHANGED <<pl_max_ideas, pl_save_report, pl_trends, pl_ideas,
                   pl_analyses, pl_validations, pl_ret>>

\* if save_report: self._save_report(report); return report
PipelineSaveAndReturn ==
    /\ pl_pc = "save"
    /\ pl_log' = IF pl_save_report THEN Append(pl_log, "save") ELSE pl_log
    /\ pl_ret' = "report"
    /\ pl_pc' = "returned"
    /\ UNCHANGED <<pl_max_ideas, pl_save_report, pl_trends, pl_ideas,
                   pl_analyses, pl_validations, pl_report>>

(* ---------------------------------------------------- the entry points *)

\* Config.validate: one of the two AI provider keys is set.
ConfigValidate(keys) == keys.openai \/ keys.anthropic

SchedulerExitReportless(valid, raised, ret) ==
    IF ~valid \/ raised THEN 1 ELSE 0

\* scheduler.run's return value, which sys.exit makes the exit code: 1 on
\* an incomplete configuration, on an exception caught around the pipeline
\* and on a pipeline that returned None, 0 otherwise.
SchedulerExit(valid, raised, ret) ==
    IF ~valid THEN 1
    ELSE IF raised THEN 1
    ELSE IF ret = "None" THEN 1
    ELSE 0

\* The exit code of python running src/main.py: main() returns None on an
\* incomplete configuration and at the end of the pipeline, and
\* asyncio.run(main()) then ends the process normally; an exception of the
\* pipeline is not caught and ends it with a traceback.
MainExit(valid, raised) == IF raised THEN 1 ELSE 0

EntryInit ==
    /\ en_pc = "idle"
    /\ en_entry = "none"
    /\ en_keys = [openai |-> FALSE, anthropic |-> FALSE]
    /\ en_raised = FALSE
    /\ en_propagated = FALSE
    /\ en_exit = -1

\* scheduler.py or src/main.py is started, with the keys of the environment.
EntryStart ==
    /\ en_pc = "idle"
    /\ \E entry \in {"scheduler", "main"}, openai \in BOOLEAN,
          anthropic \in BOOLEAN :
         /\ en_entry' = entry
         /\ en_keys' = [openai |-> openai, anthropic |-> anthropic]
    /\ en_pc' = "validate"
    /\ UNCHANGED <<en_raised, en_propagated, en_exit, pipelineVars>>

\* if not Config.validate(): return 1 (scheduler.run), return (main.main);
\* otherwise the pipeline is next.
EntryValidate ==
    /\ en_pc = "validate"
    /\ IF ConfigValidate(en_keys)
       THEN /\ en_pc' = "pipeline"
            /\ UNCHANGED en_exit
       ELSE /\ en_pc' = "exited"
            /\ en_exit' = IF en_entry = "scheduler"
                          THEN SchedulerExit(FALSE, FALSE, "pending")
                          ELSE MainExit(FALSE, FALSE)
    /\ UNCHANGED <<en_entry, en_keys, en_raised, en_propagated, pipelineVars>>

\* scout.run_full_pipeline(...) runs: one step of it.
EntryPipelineStep ==
    /\ en_pc = "pipeline"
    /\ \/ PipelineCall
       \/ PipelineScan
       \/ PipelineGenerate
       \/ PipelineAnalyze
       \/ PipelineValidate
       \/ PipelineReport
       \/ PipelineSaveAndReturn
    /\ UNCHANGED <<en_pc, en_entry, en_keys, en_raised, en_propagated, en_exit>>

\* A stage of the pipeline raises an exception: scheduler.run's except
\* clause logs it and returns 1; main.main has no handler.
EntryPipelineRaises ==
    /\ en_pc = "pipeline"
    /\ pl_pc \in {"scan", "generate", "analyze", "validate", "report", "save"}
    /\ en_raised' = TRUE
    /\ en_propagated' = (en_entry = "main")
    /\ en_exit' = IF en_entry = "scheduler"
                  THEN SchedulerExit(TRUE, TRUE, pl_ret)
                  ELSE MainExit(TRUE, TRUE)
    /\ en_pc' = "exited"
    /\ UNCHANGED <<en_entry, en_keys, pipelineVars>>

\* run_full_pipeline has returned: scheduler.run returns 1 without a report
\* and 0 with one; main.main returns.
EntryReturn ==
    /\ en_pc = "pipeline"
    /\ pl_pc = "returned"
    /\ en_exit' = IF en_entry = "scheduler"
                  THEN SchedulerExit(TRUE, FALSE, pl_ret)
                  ELSE MainExit(TRUE, FALSE)
    /\ en_pc' = "exited"
    /\ UNCHANGED <<en_entry, en_keys, en_raised, en_propagated, pipelineVars>>

(* ------------------------------------------------------- SlackNotifier *)

\* A webhook URL as the constructor's argument or config.SLACK_WEBHOOK_URL:
\* None, the empty string, or a URL.
ArgumentUrls == { "None", "", "https://hooks.slack.com/services/ARG" }

ConfigUrls == { "None", "https://hooks.slack.com/services/ENV" }

\* What requests.post does: a response with a status code, or a
\* requests.RequestException (connection error, timeout).
HttpOutcomes == { "200", "404", "500", "RequestException" }

NotifyCalls ==
    { "notify_pipeline_start", "notify_phase", "notify_error", "notify_report" }

\* The reports notify_report is given: how many lines top_recommendations
\* has and how many validations (each of an idea of the report).
SlackReports == [ recommendations : {0, 2}, validations : 0..MaxPipelineIdeas ]

\* notify_report's top_n
TopN == 3

\* The payload of a call: its text, and how many attachments it has.
Payload(call, report) ==
    CASE call = "notify_pipeline_start" ->
             [ text |-> ":rocket: *AI Business Scout pipeline started*",
               attachments |-> 1 ]
      [] call = "notify_phase" ->
             [ text |-> "*Phase*", attachments |-> 0 ]
      [] call = "notify_error" ->
             [ text |-> ":x: *AI Business Scout error*", attachments |-> 1 ]
      [] call = "notify_report" ->
             [ text |-> ":memo: *AI Business Scout - Run Complete*",
               attachments |->
                   (IF report.recommendations > 0 THEN 1 ELSE 0)
                   + Min(TopN, report.validations) ]

\* json.dumps(payload): the text of the payload, which is not the payload.
JsonDumps(payload) == << "json", payload >>

PostUncaught(webhook_url, payload, outcome) ==
    IF ~Truthy(webhook_url)
    THEN [ requests |-> <<>>, result |-> "False", raised |-> FALSE ]
    ELSE [ requests |-> << [ url |-> webhook_url,
                             data |-> JsonDumps(payload),
                             content_type |-> "application/json" ] >>,
           result |-> IF outcome = "200" THEN "True" ELSE "False",
           raised |-> outcome = "RequestException" ]

\* SlackNotifier._post: no request without a URL; otherwise one
\* requests.post, True for a 200 response, False for another status and for
\* a RequestException, which is caught.
Post(webhook_url, payload, outcome) ==
    IF ~Truthy(webhook_url)
    THEN [ requests |-> <<>>, result |-> "False", raised |-> FALSE ]
    ELSE [ requests |-> << [ url |-> webhook_url,
                             data |-> JsonDumps(payload),
                             content_type |-> "application/json" ] >>,
           result |-> IF outcome = "200" THEN "True" ELSE "False",
           raised |-> FALSE ]

NotifyUnguarded(enabled, webhook_url, call, report, outcome) ==
    LET posted == Post(webhook_url, Payload(call, report), outcome)
    IN  [ call |-> call, outcome |-> outcome, post_calls |-> 1,
          requests |-> posted.requests, post_result |-> posted.result,
          raised |-> posted.raised ]

\* notify_pipeline_start, notify_phase, notify_error, notify_report: return
\* at once when not enabled, otherwise build the payload and call _post
\* once.  The record is what the call did: how often it called _post, the
\* requests made, what _post returned, and whether the call raised.
Notify(enabled, webhook_url, call, report, outcome) ==
    IF ~enabled
    THEN [ call |-> call, outcome |-> outcome, post_calls |-> 0,
           requests |-> <<>>, post_result |-> "not called", raised |-> FALSE ]
    ELSE LET posted == Post(webhook_url, Payload(call, report), outcome)
         IN  [ call |-> call, outcome |-> outcome, post_calls |-> 1,
               requests |-> posted.requests, post_result |-> posted.result,
               raised |-> posted.raised ]

\* No SlackNotifier yet.
SlackInit ==
    /\ sl_pc = "none"
    /\ sl_argument = "None"
    /\ sl_config = "None"
    /\ sl_webhook_url = "None"
    /\ sl_enabled = FALSE
    /\ sl_history = <<>>

\* SlackNotifier.__init__(webhook_url), with config.SLACK_WEBHOOK_URL
SlackConstruct ==
    /\ sl_pc = "none"
    /\ \E argument \in ArgumentUrls, configured \in ConfigUrls :
         /\ sl_argument' = argument
         /\ sl_config' = configured
         /\ sl_webhook_url' = Or(argument, configured)
         /\ sl_enabled' = Truthy(Or(argument, configured))
    /\ sl_pc' = "constructed"
    /\ UNCHANGED sl_history

\* One of the notify_* calls, whatever requests.post does.
SlackNotify ==
    /\ sl_pc = "constructed"
    /\ Len(sl_history) < MaxNotifications
    /\ \E call \in NotifyCalls, report \in SlackReports,
          outcome \in HttpOutcomes :
         sl_history' = Append(sl_history,
             Notify(sl_enabled, sl_webhook_url, call, report, outcome))
    /\ UNCHANGED <<sl_pc, sl_argument, sl_config, sl_webhook_url, sl_enabled>>

(* ------------------------------------------- run_public_pipeline, stepwise *)

\* What the run's environment holds: GITHUB_TOKEN and NEWS_API_KEY.
PublicRunEnvs == [ github_token : Credentials, news_api_key : Credentials ]

\* run_public_pipeline is not running.
PublicRunInit ==
    /\ pr_pc = "idle"
    /\ pr_env = [ github_token |-> "None", news_api_key |-> "None" ]
    /\ pr_trends = 0
    /\ pr_ideas = 0
    /\ pr_analyses = 0
    /\ pr_validations = <<>>
    /\ pr_phases = <<>>
    /\ pr_report_file = FALSE

\* run_public_pipeline lines 22-49: without a GITHUB_TOKEN it prints how to
\* get one and returns.
PublicRunStart ==
    /\ pr_pc = "idle"
    /\ \E env \in PublicRunEnvs :
         /\ pr_env' = env
         /\ pr_pc' = IF ~Truthy(env.github_token) THEN "no_token" ELSE "phase1"
    /\ UNCHANGED <<pr_trends, pr_ideas, pr_analyses, pr_validations, pr_phases,
                   pr_report_file>>

\* Phase 1, lines 51-66: the scan finds 0..MaxStories trends; with none the
\* run returns.
PublicRunScan ==
    /\ pr_pc = "phase1"
    /\ \E found \in 0..MaxStories :
         /\ pr_trends' = found
         /\ pr_pc' = IF found = 0 THEN "no_trends" ELSE "phase2"
    /\ pr_phases' = Append(pr_phases, "scan")
    /\ UNCHANGED <<pr_env, pr_ideas, pr_analyses, pr_validations,
                   pr_report_file>>

\* Phase 2, lines 68-86: generate_ideas(trends, max_ideas=3) returns one
\* idea for each of the top three trends; with none the run returns.
PublicRunGenerate ==
    /\ pr_pc = "phase2"
    /\ pr_ideas' = Min(ScriptIdeas, pr_trends)
    /\ pr_pc' = IF Min(ScriptIdeas, pr_trends) = 0 THEN "no_ideas" ELSE "phase3"
    /\ pr_phases' = Append(pr_phases, "generate")
    /\ UNCHANGED <<pr_env, pr_trends, pr_analyses, pr_validations,
                   pr_report_file>>

\* Phase 3, lines 88-101: one analysis per idea, each printed with the title
\* of its idea.
PublicRunAnalyze ==
    /\ pr_pc = "phase3"
    /\ pr_analyses' = pr_ideas
    /\ pr_pc' = "phase4"
    /\ pr_phases' = Append(pr_phases, "analyze")
    /\ UNCHANGED <<pr_env, pr_trends, pr_ideas, pr_validations, pr_report_file>>

\* What the loop over the validations (lines 113-118) and the rest of the
\* run come to: the loop's body reads validation.engagement_score, which a
\* ValidationResult does not have (its score is metrics.engagement_score),
\* so the first iteration raises AttributeError; with no validation the
\* report is built and written.
PublicRunAfterValidation(validations) ==
    IF Len(validations) > 0 THEN "raised" ELSE "saved"

\* Phase 4 and the report, lines 103-209: validate_ideas gives one
\* validation per idea, promising or not; then the loop and, if the run gets
\* there, the report and its file.
PublicRunValidateAndReport ==
    /\ pr_pc = "phase4"
    /\ \E promising \in [1..pr_ideas -> BOOLEAN] :
         /\ pr_validations' = promising
         /\ pr_pc' = PublicRunAfterValidation(promising)
         /\ pr_report_file' = (PublicRunAfterValidation(promising) = "saved")
    /\ pr_phases' = Append(pr_phases, "validate")
    /\ UNCHANGED <<pr_env, pr_trends, pr_ideas, pr_analyses>>

(* ---------------------------------------------------- _select_platform *)

\* str(AdPlatform.__members__): the enumeration has the members META, GOOGLE
\* and LINKEDIN.
AdPlatformMembersText ==
    <<"m","a","p","p","i","n","g","p","r","o","x","y","(","{","'","M",
      "E","T","A","'",":"," ","<","A","d","P","l","a","t","f","o","r",
      "m",".","M","E","T","A",":"," ","'","m","e","t","a","'",">",",",
      " ","'","G","O","O","G","L","E","'",":"," ","<","A","d","P","l",
      "a","t","f","o","r","m",".","G","O","O","G","L","E",":"," ","'",
      "g","o","o","g","l","e","'",">",","," ","'","L","I","N","K","E",
      "D","I","N","'",":"," ","<","A","d","P","l","a","t","f","o","r",
      "m",".","L","I","N","K","E","D","I","N",":"," ","'","l","i","n",
      "k","e","d","i","n","'",">","}",")">>

\* The words _select_platform looks for in the target market: those of
\* its first test and those of its second.
GoogleWords ==
    { <<"d","e","v","e","l","o","p","e","r">>,
      <<"s","o","f","t","w","a","r","e">>,
      <<"t","e","c","h">> }

LinkedInWords ==
    { <<"b","2","b">>,
      <<"e","n","t","e","r","p","r","i","s","e">>,
      <<"b","u","s","i","n","e","s","s">> }

WordLinkedIn ==
    <<"L","I","N","K","E","D","I","N">>

\* Who an idea is for, in the words of the templates of the generators and
\* of a few other markets.
TargetPhrases ==
    <<
      <<"S","o","f","t","w","a","r","e"," ","d","e","v","e","l","o","p",
        "m","e","n","t"," ","t","e","a","m","s">>,
      <<"C","o","m","p","a","n","i","e","s"," ","w","i","t","h"," ","5",
        "0","-","5","0","0"," ","e","m","p","l","o","y","e","e","s">>,
      <<"t","e","c","h"," ","c","o","m","p","a","n","i","e","s">>,
      <<"M","i","l","l","e","n","n","i","a","l","s"," ","a","n","d"," ",
        "G","e","n"," ","Z">>,
      <<"B","u","s","i","n","e","s","s","e","s"," ","a","n","d"," ","i",
        "n","d","i","v","i","d","u","a","l","s">>,
      <<"E","a","r","l","y"," ","a","d","o","p","t","e","r","s">>,
      <<"A","I"," ","d","e","v","e","l","o","p","e","r","s">>,
      <<"e","n","t","e","r","p","r","i","s","e","s">>,
      <<"B","2","B"," ","S","a","a","S"," ","b","u","y","e","r","s">>,
      <<"E","N","T","E","R","P","R","I","S","E"," ","I","T">>,
      <<"s","t","u","d","e","n","t","s">>,
      <<>>
    >>

\* A target market: two of the phrases joined by " and ".
TargetMarkets ==
    { TargetPhrases[p] \o <<" ","a","n","d"," ">> \o TargetPhrases[q] :
        p, q \in 1..Len(TargetPhrases) }

SelectPlatformWithoutLinkedIn(idea) ==
    LET target == Lower(idea.target_market)
    IN  IF \E word \in GoogleWords : Contains(word, target)
        THEN "google"
        ELSE IF \E word \in LinkedInWords : Contains(word, target)
        THEN "google"
        ELSE "meta"

\* _select_platform: Google for developers, software and tech; for b2b,
\* enterprise and business LinkedIn if "LINKEDIN" occurs in the text of the
\* enumeration's members, else Google; Meta otherwise.
SelectPlatform(idea) ==
    LET target == Lower(idea.target_market)
    IN  IF \E word \in GoogleWords : Contains(word, target)
        THEN "google"
        ELSE IF \E word \in LinkedInWords : Contains(word, target)
        THEN IF Contains(WordLinkedIn, AdPlatformMembersText)
             THEN "linkedin" ELSE "google"
        ELSE "meta"

\* _select_platform has not been called.
PlatformInit ==
    /\ sp_pc = "idle"
    /\ sp_target = <<>>
    /\ sp_platform = "none"

\* _create_campaign line 97: platform = self._select_platform(idea)
SelectPlatformCall ==
    /\ sp_pc = "idle"
    /\ \E target \in TargetMarkets :
         /\ sp_target' = target
         /\ sp_platform' = SelectPlatform([target_market |-> target])
    /\ sp_pc' = "returned"

(* ------------------------------------- MarketValidatorAgent across calls *)

\* The ideas of one validate_ideas call: none, one or two, those of a later
\* call being other ideas than those of an earlier one.
CallIdeas(call) ==
    { [ i \in 1..n |-> [id |-> 10 * call + i] ] : n \in 0..MaxPipelineIdeas }

\* The campaigns validate_ideas creates, one per idea in input order.
CampaignsOf(ideas, budget_per_idea) ==
    [ i \in 1..Len(ideas) |-> CreateCampaign(ideas[i], budget_per_idea) ]

ValidateIdeasCallAccumulating(campaigns, validations, ideas, analyses, draws) ==
    LET made == ValidateIdeas(ideas, analyses, 500, draws)
    IN  [ campaigns |-> campaigns \o CampaignsOf(ideas, 500),
          validations |-> validations \o made,
          returned |-> made ]

\* validate_ideas on an agent with these campaigns and validations: every
\* campaign is appended to self.campaigns, and self.validations is replaced
\* by the list of this call, which is also returned.
ValidateIdeasCall(campaigns, validations, ideas, analyses, draws) ==
    LET made == ValidateIdeas(ideas, analyses, 500, draws)
    IN  [ campaigns |-> campaigns \o CampaignsOf(ideas, 500),
          validations |-> made,
          returned |-> made ]

\* get_promising_ideas: [v for v in self.validations if v.is_promising]
RECURSIVE PromisingOf(_)
PromisingOf(validations) ==
    IF validations = <<>> THEN <<>>
    ELSE LET rest == PromisingOf(SubSeq(validations, 1, Len(validations) - 1))
             last == validations[Len(validations)]
         IN  IF last.is_promising THEN Append(rest, last) ELSE rest

\* MarketValidatorAgent.__init__
ValidatorInit ==
    /\ va_campaigns = <<>>
    /\ va_validations = <<>>
    /\ va_calls = <<>>
    /\ va_returned = <<>>
    /\ va_promising = [called |-> FALSE, result |-> <<>>]

\* One validate_ideas call, without analyses, with the draws of each
\* campaign.
ValidatorValidateIdeas ==
    /\ Len(va_calls) < MaxValidateCalls
    /\ \E ideas \in CallIdeas(Len(va_calls) + 1) :
         \E draws \in [1..Len(ideas) -> PipelineDraws] :
            LET after == ValidateIdeasCall(va_campaigns, va_validations,
                                           ideas, <<>>, draws)
            IN  /\ va_campaigns' = after.campaigns
                /\ va_validations' = after.validations
                /\ va_returned' = after.returned
                /\ va_calls' = Append(va_calls, ideas)
    /\ va_promising' = [called |-> FALSE, result |-> <<>>]

\* get_promising_ideas, after a validate_ideas call
ValidatorGetPromisingIdeas ==
    /\ va_calls # <<>>
    /\ ~va_promising.called
    /\ va_promising' = [called |-> TRUE, result |-> PromisingOf(va_validations)]
    /\ UNCHANGED <<va_campaigns, va_validations, va_calls, va_returned>>

(* ------------------------------------------------------ specifications *)

\* The state after construction of everything a specification leaves alone.
Constructed ==
    /\ ViabilityIdle
    /\ AnalystInit
    /\ ConfidenceIdle
    /\ MetricsIdle
    /\ TemplateGenInit
    /\ PublicGenInit
    /\ ScanInit
    /\ ScriptInit
    /\ PipelineInit
    /\ EntryInit
    /\ SlackInit
    /\ PublicRunInit
    /\ PlatformInit
    /\ ValidatorInit

NextViability ==
    CalculateViability
        /\ UNCHANGED <<analystVars, confidenceVars, metricsVars,
                       templateGenVars, publicGenVars, scanVars, scriptVars, pipelineVars, entryVars, slackVars,
      publicRunVars,
      platformVars,
      validatorVars>>

exceptAnalyst ==
    <<viabilityVars, confidenceVars, metricsVars, templateGenVars,
      publicGenVars, scanVars, scriptVars, pipelineVars, entryVars, slackVars,
      publicRunVars,
      platformVars,
      validatorVars>>

NextAnalyst ==
    \/ AnalyzeIdeasStart /\ UNCHANGED exceptAnalyst
    \/ AnalyzeIdeasStep /\ UNCHANGED exceptAnalyst
    \/ AnalyzeIdeasReturn /\ UNCHANGED exceptAnalyst
    \/ GetTopIdeas /\ UNCHANGED exceptAnalyst

NextConfidence ==
    CalculateConfidenceCall
        /\ UNCHANGED <<viabilityVars, analystVars, metricsVars,
                       templateGenVars, publicGenVars, scanVars, scriptVars, pipelineVars, entryVars, slackVars,
      publicRunVars,
      platformVars,
      validatorVars>>

NextMetrics ==
    RunAndAnalyzeCampaignCall
        /\ UNCHANGED <<viabilityVars, analystVars, confidenceVars,
                       templateGenVars, publicGenVars, scanVars, scriptVars, pipelineVars, entryVars, slackVars,
      publicRunVars,
      platformVars,
      validatorVars>>

NextTemplateGen ==
    TemplateGenerate
        /\ UNCHANGED <<viabilityVars, analystVars, confidenceVars,
                       metricsVars, publicGenVars, scanVars, scriptVars, pipelineVars, entryVars, slackVars,
      publicRunVars,
      platformVars,
      validatorVars>>

exceptPublicGen ==
    <<viabilityVars, analystVars, confidenceVars, metricsVars,
      templateGenVars, scanVars, scriptVars, pipelineVars, entryVars, slackVars,
      publicRunVars,
      platformVars,
      validatorVars>>

NextPublicGen ==
    \/ PublicGenerateStart /\ UNCHANGED exceptPublicGen
    \/ PublicGenerateTask /\ UNCHANGED exceptPublicGen
    \/ PublicGenerateReturn /\ UNCHANGED exceptPublicGen

exceptScan ==
    <<viabilityVars, analystVars, confidenceVars, metricsVars,
      templateGenVars, publicGenVars, scriptVars, pipelineVars, entryVars, slackVars,
      publicRunVars,
      platformVars,
      validatorVars>>

exceptScript ==
    <<viabilityVars, analystVars, confidenceVars, metricsVars,
      templateGenVars, publicGenVars, scanVars, pipelineVars, entryVars, slackVars,
      publicRunVars,
      platformVars,
      validatorVars>>

exceptPipeline ==
    <<viabilityVars, analystVars, confidenceVars, metricsVars,
      templateGenVars, publicGenVars, scanVars, scriptVars, entryVars, slackVars,
      publicRunVars,
      platformVars,
      validatorVars>>

exceptEntry ==
    <<viabilityVars, analystVars, confidenceVars, metricsVars,
      templateGenVars, publicGenVars, scanVars, scriptVars, slackVars,
      publicRunVars,
      platformVars,
      validatorVars>>

exceptSlack ==
    <<viabilityVars, analystVars, confidenceVars, metricsVars,
      templateGenVars, publicGenVars, scanVars, scriptVars, pipelineVars,
      entryVars,
      publicRunVars,
      platformVars,
      validatorVars>>

exceptPublicRun ==
    <<viabilityVars, analystVars, confidenceVars, metricsVars,
      templateGenVars, publicGenVars, scanVars, scriptVars, pipelineVars,
      entryVars,
      slackVars,
      platformVars,
      validatorVars>>

exceptPlatform ==
    <<viabilityVars, analystVars, confidenceVars, metricsVars,
      templateGenVars, publicGenVars, scanVars, scriptVars, pipelineVars,
      entryVars,
      slackVars,
      publicRunVars,
      validatorVars>>

exceptValidator ==
    <<viabilityVars, analystVars, confidenceVars, metricsVars,
      templateGenVars, publicGenVars, scanVars, scriptVars, pipelineVars,
      entryVars,
      slackVars,
      publicRunVars,
      platformVars>>

NextPublicRun ==
    \/ PublicRunStart /\ UNCHANGED exceptPublicRun
    \/ PublicRunScan /\ UNCHANGED exceptPublicRun
    \/ PublicRunGenerate /\ UNCHANGED exceptPublicRun
    \/ PublicRunAnalyze /\ UNCHANGED exceptPublicRun
    \/ PublicRunValidateAndReport /\ UNCHANGED exceptPublicRun

NextPlatform ==
    SelectPlatformCall /\ UNCHANGED exceptPlatform

NextValidator ==
    \/ ValidatorValidateIdeas /\ UNCHANGED exceptValidator
    \/ ValidatorGetPromisingIdeas /\ UNCHANGED exceptValidator

NextSlack ==
    \/ SlackConstruct /\ UNCHANGED exceptSlack
    \/ SlackNotify /\ UNCHANGED exceptSlack

NextEntry ==
    \/ EntryStart /\ UNCHANGED exceptEntry
    \/ EntryValidate /\ UNCHANGED exceptEntry
    \/ EntryPipelineStep /\ UNCHANGED exceptEntry
    \/ EntryPipelineRaises /\ UNCHANGED exceptEntry
    \/ EntryReturn /\ UNCHANGED exceptEntry

NextPipeline ==
    \/ PipelineCall /\ UNCHANGED exceptPipeline
    \/ PipelineScan /\ UNCHANGED exceptPipeline
    \/ PipelineGenerate /\ UNCHANGED exceptPipeline
    \/ PipelineAnalyze /\ UNCHANGED exceptPipeline
    \/ PipelineValidate /\ UNCHANGED exceptPipeline
    \/ PipelineReport /\ UNCHANGED exceptPipeline
    \/ PipelineSaveAndReturn /\ UNCHANGED exceptPipeline

NextScript ==
    \/ RunLiveMinimal /\ UNCHANGED exceptScript
    \/ RunDemoPipeline /\ UNCHANGED exceptScript
    \/ RunDemoPublic /\ UNCHANGED exceptScript
    \/ RunPublicPipeline /\ UNCHANGED exceptScript

NextScan ==
    \/ WebScanStart /\ UNCHANGED exceptScan
    \/ PublicScanStart /\ UNCHANGED exceptScan
    \/ ScanFetchComplete /\ UNCHANGED exceptScan
    \/ ScanReturn /\ UNCHANGED exceptScan
    \/ GetTopTrends /\ UNCHANGED exceptScan

InitViability ==
    /\ ViabilityInit
    /\ AnalystInit /\ ConfidenceIdle /\ MetricsIdle
    /\ TemplateGenInit /\ PublicGenInit /\ ScanInit
    /\ ScriptInit
    /\ PipelineInit
    /\ EntryInit
    /\ SlackInit
    /\ PublicRunInit
    /\ PlatformInit
    /\ ValidatorInit

InitAnalyst == Constructed

InitConfidence ==
    /\ ConfidenceInit
    /\ ViabilityIdle /\ AnalystInit /\ MetricsIdle
    /\ TemplateGenInit /\ PublicGenInit /\ ScanInit
    /\ ScriptInit
    /\ PipelineInit
    /\ EntryInit
    /\ SlackInit
    /\ PublicRunInit
    /\ PlatformInit
    /\ ValidatorInit

InitMetrics ==
    /\ MetricsInit
    /\ ViabilityIdle /\ AnalystInit /\ ConfidenceIdle
    /\ TemplateGenInit /\ PublicGenInit /\ ScanInit
    /\ ScriptInit
    /\ PipelineInit
    /\ EntryInit
    /\ SlackInit
    /\ PublicRunInit
    /\ PlatformInit
    /\ ValidatorInit

InitTemplateGen == Constructed

InitPublicGen == Constructed

InitScan == Constructed

InitScript == Constructed

InitPipeline == Constructed

InitEntry == Constructed

InitSlack == Constructed

InitPublicRun == Constructed

InitPlatform == Constructed

InitValidator == Constructed

SpecViability == InitViability /\ [][NextViability]_vars

SpecAnalyst == InitAnalyst /\ [][NextAnalyst]_vars

SpecConfidence == InitConfidence /\ [][NextConfidence]_vars

SpecMetrics == InitMetrics /\ [][NextMetrics]_vars

SpecTemplateGen == InitTemplateGen /\ [][NextTemplateGen]_vars

SpecPublicGen == InitPublicGen /\ [][NextPublicGen]_vars

SpecScan == InitScan /\ [][NextScan]_vars

SpecScript == InitScript /\ [][NextScript]_vars

SpecPipeline == InitPipeline /\ [][NextPipeline]_vars

SpecEntry == InitEntry /\ [][NextEntry]_vars

SpecSlack == InitSlack /\ [][NextSlack]_vars

SpecPlatform == InitPlatform /\ [][NextPlatform]_vars

SpecValidator == InitValidator /\ [][NextValidator]_vars

\* The run is one coroutine that asyncio.run drives to its end: a step that
\* can be taken is taken.
SpecPublicRun ==
    InitPublicRun /\ [][NextPublicRun]_vars /\ WF_vars(NextPublicRun)

(* -------------------------------------------------------------- claims *)

\* C1: _calculate_viability_score returns a value v with 0 <= v <= 10 (0 to
\* 100 tenths) for SWOT lists of any lengths, 0 and 100 entries included,
\* and for every competitive-landscape text.
C1_ViabilityScoreInRange ==
    vs_pc = "returned" => (0 <= vs_score /\ vs_score <= 100)

\* C1's case: the score of a SWOT with 100 strengths and no weakness.
C1_Witness ==
    /\ vs_pc = "returned"
    /\ Len(vs_swot.strengths) = LongSwotLen
    /\ Len(vs_swot.weaknesses) = 0
    /\ Len(vs_swot.opportunities) = LongSwotLen

\* The landscape mentions the word, in any letter case.
Mentions(word, landscape) == Contains(word, Lower(landscape))

\* The score the specification's formula gives, in tenths.
SpecifiedViability(strengths, weaknesses, opportunities, landscape) ==
    LET bonus == IF Mentions(TextLow, landscape) THEN 10
                 ELSE IF Mentions(TextModerate, landscape) THEN 5
                 ELSE 0
        sum == 50 + Min(3 * strengths, 20) - Min(2 * weaknesses, 15)
                  + Min(2 * opportunities, 10) + bonus
    IN  IF sum < 0 THEN 0 ELSE IF sum > 100 THEN 100 ELSE sum

\* C2: the score equals clamp(5.0 + min(0.3*|strengths|, 2.0)
\* - min(0.2*|weaknesses|, 1.5) + min(0.2*|opportunities|, 1.0) + bonus, 0, 10)
\* with bonus 1.0 for a landscape mentioning "low", else 0.5 for one
\* mentioning "moderate", else 0.0, whatever the threats and the market size;
\* 4 strengths, 4 weaknesses, 4 opportunities and "moderate competition"
\* give 6.7.
C2_ViabilityScoreFormula ==
    vs_pc = "returned" =>
        /\ vs_score = SpecifiedViability(Len(vs_swot.strengths),
                          Len(vs_swot.weaknesses), Len(vs_swot.opportunities),
                          vs_competitive)
        /\ ( /\ Len(vs_swot.strengths) = 4
             /\ Len(vs_swot.weaknesses) = 4
             /\ Len(vs_swot.opportunities) = 4
             /\ vs_competitive = ScenarioLandscape ) => vs_score = 67

\* C2's case: the scenario of the specification, scored.
C2_Witness ==
    /\ vs_pc = "returned"
    /\ Len(vs_swot.strengths) = 4
    /\ Len(vs_swot.weaknesses) = 4
    /\ Len(vs_swot.opportunities) = 4
    /\ Len(vs_swot.threats) = 4
    /\ vs_competitive = ScenarioLandscape
    /\ vs_score = 67

\* C3: analyze_ideas returns a list sorted by viability_score, highest
\* first, holding exactly one analysis per input idea, and get_top_ideas(limit)
\* called afterwards returns the first `limit` elements of that list.
C3_AnalysesSortedAndComplete ==
    an_pc = "done" =>
        /\ \A i, j \in 1..Len(an_ret) :
             i < j => an_ret[i].viability_score >= an_ret[j].viability_score
        /\ Len(an_ret) = Len(an_ideas)
        /\ \A k \in 1..Len(an_ideas) :
             Cardinality({ i \in 1..Len(an_ret) :
                             an_ret[i].idea_id = an_ideas[k].id }) = 1
        /\ an_top.called =>
             /\ Len(an_top.result) = Min(an_top.limit, Len(an_ret))
             /\ \A i \in 1..Len(an_top.result) : an_top.result[i] = an_ret[i]

\* C3's case: three or more ideas analysed in an order the sort had to
\* change, then get_top_ideas with a limit that cuts the list.
C3_Witness ==
    /\ an_pc = "done"
    /\ Len(an_ideas) >= 3
    /\ an_ret # an_local
    /\ an_top.called
    /\ 0 < an_top.limit
    /\ an_top.limit < Len(an_ret)

\* C4: a ValidationResult is promising exactly when ctr >= 0.015 and
\* conversion_rate >= 0.02 and engagement_score >= 5.0, whether or not an
\* analysis matches the idea and whatever its viability.
C4_PromisingIffThresholds ==
    mm_pc = "returned" =>
        ( mm_result.is_promising <=>
            ( /\ mm_result.metrics.ctr >= 150
              /\ mm_result.metrics.conversion_rate >= 200
              /\ mm_result.metrics.engagement_score >= 5000 ) )

\* C4's case: a promising verdict for an idea that has no analysis.
C4_Witness ==
    /\ mm_pc = "returned"
    /\ mm_analysis = <<>>
    /\ mm_result.is_promising

\* C5: _calculate_confidence returns "high" exactly when conversions >= 50
\* and clicks >= 500, "medium" exactly when that fails and conversions >= 20
\* and clicks >= 200, and "low" in every other case.
C5_ConfidenceLevels ==
    cf_pc = "returned" =>
        LET high == cf_metrics.conversions >= 50 /\ cf_metrics.clicks >= 500
            medium == ~high /\ cf_metrics.conversions >= 20
                            /\ cf_metrics.clicks >= 200
        IN  /\ (cf_level = "high") <=> high
            /\ (cf_level = "medium") <=> medium
            /\ (cf_level = "low") <=> (~high /\ ~medium)

\* C5's case: enough conversions for "high" but too few clicks.
C5_Witness ==
    /\ cf_pc = "returned"
    /\ cf_metrics.conversions >= 50
    /\ cf_metrics.clicks < 500
    /\ cf_level = "medium"

\* C6: engagement_score equals clamp((ctr/0.05)*3 + (conversion_rate/0.1)*4
\* + min(conversions/50, 1.0)*3, 0, 10), so it lies in [0, 10]; for ctr 0.03,
\* conversion_rate 0.05, 3000 clicks and 150 conversions it is 6.8, the
\* verdict is promising and the confidence is "high".
C6_EngagementScoreFormula ==
    mm_pc = "returned" =>
        LET m == mm_result.metrics
            raw == 6 * m.ctr + 4 * m.conversion_rate
                     + (IF m.conversions >= 50 THEN 3000 ELSE 60 * m.conversions)
        IN  /\ m.engagement_score =
                 (IF raw < 0 THEN 0 ELSE IF raw > 10000 THEN 10000 ELSE raw)
            /\ 0 <= m.engagement_score
            /\ m.engagement_score <= 10000
            /\ ( m.ctr = 300 /\ m.conversion_rate = 500 /\ m.clicks = 3000
                 /\ m.conversions = 150 ) =>
                   /\ m.engagement_score = 6800
                   /\ mm_result.is_promising
                   /\ mm_result.confidence_level = "high"

\* C6's case: the scenario's metrics, generated.
C6_Witness ==
    /\ mm_pc = "returned"
    /\ mm_result.metrics.impressions = 100000
    /\ mm_result.metrics.ctr = 300
    /\ mm_result.metrics.conversion_rate = 500
    /\ mm_result.metrics.clicks = 3000
    /\ mm_result.metrics.conversions = 150

\* C7: for every list of trends and every max_ideas >= 0, the template-based
\* generate_ideas(trends, max_ideas) returns exactly min(len(trends),
\* max_ideas) ideas.
C7_CountIsMinOfTrendsAndMax ==
    tg_pc = "done" => Len(tg_ret) = Min(Len(tg_trends), tg_max)

\* C7's case: generate_ideas returned fewer ideas than trends although
\* max_ideas allows as many.
C7_Witness ==
    /\ tg_pc = "done"
    /\ tg_max >= Len(tg_trends)
    /\ Len(tg_ret) >= 1
    /\ Len(tg_ret) < Len(tg_trends)

\* The service outcomes that make a generation fail: the request fails, the
\* text is no JSON, or the JSON has the wrong shape.
FailedOutcomes ==
    { "request_error", "not_json", "json_list", "json_object_null_title" }

\* C8: whichever generations fail, every selected trend yields exactly one
\* idea, a failed one the fallback idea with source_trends = [the trend's
\* id], so that min(len(trends), max_ideas) ideas are returned even when
\* every generation fails.
C8_FallbackKeepsCount ==
    pg_pc = "done" =>
        /\ Len(pg_ret) = Min(Len(pg_trends), pg_max)
        /\ \A i \in 1..Len(pg_top) :
             pg_outcomes[i] \in FailedOutcomes =>
                /\ i <= Len(pg_ret)
                /\ pg_ret[i].source_trends = <<pg_top[i].id>>
                /\ pg_ret[i].value_proposition =
                       "Solve key challenges in this emerging market"

\* C8's case: two or more generations, every one of them failed.
C8_Witness ==
    /\ pg_pc = "done"
    /\ Len(pg_top) >= 2
    /\ \A i \in 1..Len(pg_top) : pg_outcomes[i] \in FailedOutcomes
    /\ \E i \in 1..Len(pg_top) : pg_outcomes[i] = "json_list"

\* engagement * (1 + sentiment), the sentiment in hundredths
RankingScore(trend) == trend.engagement * (100 + trend.sentiment)

\* C9: the ideas returned are those of the max_ideas trends with the highest
\* score engagement*(1+sentiment), one idea per trend in descending order of
\* score, whatever order the generations completed in.
C9_IdeasFollowRanking ==
    pg_pc = "done" =>
        LET Source(i) ==
                CHOOSE t \in { pg_trends[k] : k \in 1..Len(pg_trends) } :
                    <<t.id>> = pg_ret[i].source_trends
            chosen == { Source(i) : i \in 1..Len(pg_ret) }
        IN  /\ Len(pg_ret) = Min(Len(pg_trends), pg_max)
            /\ \A i \in 1..Len(pg_ret) :
                 \E k \in 1..Len(pg_trends) :
                     <<pg_trends[k].id>> = pg_ret[i].source_trends
            /\ \A i, j \in 1..Len(pg_ret) :
                 i < j => /\ Source(i) # Source(j)
                          /\ RankingScore(Source(i)) >= RankingScore(Source(j))
            /\ \A k \in 1..Len(pg_trends) :
                 pg_trends[k] \notin chosen =>
                     \A t \in chosen :
                         RankingScore(t) >= RankingScore(pg_trends[k])

\* C9's case: more trends than max_ideas, handed over in an order that is
\* not the ranking, and a generation that completed before an earlier one.
C9_Witness ==
    /\ pg_pc = "done"
    /\ pg_reordered
    /\ Len(pg_ret) >= 2
    /\ Len(pg_trends) > pg_max
    /\ TrendIds(pg_top) # TrendIds(SubSeq(pg_trends, 1, Len(pg_top)))

\* The trends a fetcher produced from what its source had for it.
ProducedTrends(fetcher, outcome) ==
    LET n == IF outcome.fetched < FetcherCap(fetcher) \/ sc_agent = "web"
             THEN outcome.fetched ELSE FetcherCap(fetcher)
    IN  [ i \in 1..n |-> FetchedTrend(fetcher, i) ]

\* The trend lists of the first n fetchers, those of the failed ones left
\* out, one after the other.
RECURSIVE SucceededTrends(_)
SucceededTrends(n) ==
    IF n = 0 THEN <<>>
    ELSE SucceededTrends(n - 1) \o
         (IF sc_outcomes[n].failed THEN <<>>
          ELSE ProducedTrends(sc_tasks[n], sc_outcomes[n]))

\* C10: scan_all_sources of WebScannerAgent and of PublicWebScanner never
\* raises because a fetcher failed; whichever fetchers fail, it returns
\* exactly the concatenation of the trend lists of those that succeeded (a
\* failed fetcher contributes no trend), and the agent's stored trends are
\* the returned list.
C10_ScanSurvivesFailedFetchers ==
    /\ sc_pc # "raised"
    /\ sc_pc = "done" =>
         /\ sc_ret = SucceededTrends(Len(sc_tasks))
         /\ sc_trends = sc_ret

\* C10's case: a fetcher of WebScannerAgent raised, and two others
\* returned their trends.
C10_Witness ==
    /\ sc_pc = "done"
    /\ sc_agent = "web"
    /\ \E i \in 1..Len(sc_results) : sc_results[i].kind = "exception"
    /\ Len(sc_ret) >= 2

\* The position the j-th stored trend has once the stored trends are ordered
\* by engagement descending, equal engagements in insertion order.
RankByEngagement(j) ==
    1 + Cardinality({ k \in 1..Len(sc_trends) :
                        \/ sc_trends[k].engagement > sc_trends[j].engagement
                        \/ /\ sc_trends[k].engagement = sc_trends[j].engagement
                           /\ k < j })

Engagements(trends) == [i \in 1..Len(trends) |-> trends[i].engagement]

\* C11: get_top_trends(n) returns the first min(n, number of stored
\* trends) trends of the stored set ordered by engagement descending, trends
\* of equal engagement keeping their insertion order, and leaves the stored
\* trend list unchanged; with stored engagements [15000, 8500, 25000,
\* 50000], get_top_trends(2) returns the 50000 trend then the 25000 trend.
C11_TopTrendsByEngagement ==
    sc_top.called =>
        /\ Len(sc_top.result) = Min(sc_top.limit, Len(sc_trends))
        /\ \A j \in 1..Len(sc_trends) :
             RankByEngagement(j) <= Len(sc_top.result) =>
                 sc_top.result[RankByEngagement(j)] = sc_trends[j]
        /\ sc_trends = sc_ret
        /\ (Engagements(sc_trends) = <<15000, 8500, 25000, 50000>>
              /\ sc_top.limit = 2) =>
                Engagements(sc_top.result) = <<50000, 25000>>

\* C11's case: get_top_trends returned two trends of equal engagement that
\* other trends separate in the stored list.
C11_Witness ==
    /\ sc_top.called
    /\ Len(sc_top.result) >= 2
    /\ sc_top.result[1].engagement = sc_top.result[2].engagement
    /\ sc_top.result[1] # sc_trends[1]
    /\ Len(sc_trends) > sc_top.limit

\* C11's scenario: the four mock trends stored, get_top_trends(2) called.
C11_ScenarioReached ==
    /\ sc_top.called
    /\ sc_top.limit = 2
    /\ Engagements(sc_trends) = <<15000, 8500, 25000, 50000>>

\* C12: in every report that carries a summary, the trends count equals the
\* number of trends listed, the ideas count the number of ideas listed, and
\* promising_ideas the number of validations whose is_promising is true.
C12_SummaryCountsMatchLists ==
    rp_pc = "done" =>
        /\ rp_report.lists_trends =>
              rp_report.summary.trends = Len(rp_report.trends)
        /\ rp_report.summary.ideas = Len(rp_report.ideas)
        /\ rp_report.summary.promising = PromisingCount(rp_report.validations)

\* C12's case: run_live_minimal wrote a report on more trends than it lists.
C12_Witness ==
    /\ rp_pc = "done"
    /\ rp_entry = "run_live_minimal"
    /\ rp_report.summary.trends > Len(rp_report.trends)
    /\ rp_report.summary.promising >= 1

\* The template whose key a theme is, 0 when it is no key.
TemplateOfKey(theme) ==
    IF \E k \in 1..Len(IdeaTemplateKeys) : IdeaTemplateKeys[k] = theme
    THEN CHOOSE k \in 1..Len(IdeaTemplateKeys) : IdeaTemplateKeys[k] = theme
    ELSE 0

\* C20: in the template-based IdeaGeneratorAgent, a trend group whose first
\* keyword is one of the template keys ("AI", "remote work",
\* "sustainability", "personal finance") produces the idea of that key's
\* template (for "AI": title "AI-Powered Code Review Assistant"), and any
\* other first keyword produces the generic "<Keyword> Solution Platform"
\* idea.
C20_TemplateOfFirstKeyword ==
    tg_pc = "done" =>
        \A i \in 1..Len(tg_ret) :
            IF TemplateOfKey(tg_ret[i].theme) # 0
            THEN tg_ret[i].title =
                     [ prefix |-> <<>>,
                       text |-> IdeaTemplateTitles[TemplateOfKey(tg_ret[i].theme)] ]
            ELSE /\ tg_ret[i].title.prefix # <<>>
                 /\ tg_ret[i].title.text = " Solution Platform"

\* C20's case: the group of the first keyword "AI" got the generic idea,
\* titled "Ai Solution Platform".
C20_Witness ==
    /\ tg_pc = "done"
    /\ \E i \in 1..Len(tg_ret) :
         /\ tg_ret[i].theme = "AI"
         /\ tg_ret[i].title =
                [ prefix |-> <<"A", "i">>, text |-> " Solution Platform" ]

\* The groups of the other keys do get their templates, and a keyword that
\* is no key the generic idea.
C20_OtherKeysMatch ==
    tg_pc = "done" =>
        \A i \in 1..Len(tg_ret) :
            tg_ret[i].theme # "AI" =>
                IF TemplateOfKey(tg_ret[i].theme) # 0
                THEN tg_ret[i].title.text =
                         IdeaTemplateTitles[TemplateOfKey(tg_ret[i].theme)]
                ELSE tg_ret[i].title.text \in
                         { " Solution Platform", "Hybrid Team Sync Platform" }

\* The indices of the promising validations of the report.
PromisingOfReport ==
    { k \in 1..Len(pl_report.validations) :
        pl_report.validations[k].is_promising }

\* The idea of the report with an id.
IdeaOfReport(id) ==
    pl_report.ideas_generated[
        CHOOSE i \in 1..Len(pl_report.ideas_generated) :
            pl_report.ideas_generated[i].id = id]

\* The viability score the report's analyses give an idea.
ViabilityInReport(id) ==
    pl_report.analyses[
        CHOOSE a \in 1..Len(pl_report.analyses) :
            pl_report.analyses[a].idea_id = id].viability_score

\* C13: _generate_report builds top_recommendations so that, when at least
\* one validation is promising, it holds one header line followed by
\* exactly one entry per promising validation (naming that idea's title with
\* its viability and engagement scores) and no entry for any non-promising
\* validation; when no validation is promising it holds exactly one message.
C13_TopRecommendations ==
    pl_pc \in {"save", "returned"} /\ pl_ret # "None" =>
        LET recs == pl_report.top_recommendations
            V == pl_report.validations
        IN  IF PromisingOfReport # {}
            THEN /\ Len(recs) = 1 + Cardinality(PromisingOfReport)
                 /\ recs[1].kind = "header"
                 /\ recs[1].promising = Cardinality(PromisingOfReport)
                 /\ recs[1].total = Len(V)
                 /\ \A n \in 2..Len(recs) : recs[n].kind = "idea"
                 /\ \A k \in PromisingOfReport :
                      LET n == 1 + Cardinality({ j \in PromisingOfReport : j <= k })
                      IN  /\ recs[n].title = IdeaOfReport(V[k].idea_id).title
                          /\ recs[n].viability = ViabilityInReport(V[k].idea_id)
                          /\ recs[n].engagement =
                                 FormatEngagement(V[k].metrics.engagement_score)
                 /\ \A k \in (1..Len(V)) \ PromisingOfReport :
                      \A n \in 2..Len(recs) :
                          recs[n].title # IdeaOfReport(V[k].idea_id).title
            ELSE /\ Len(recs) = 1
                 /\ recs[1].kind = "no_idea"

\* C13's case: a report on two validations of which the second alone is
\* promising.
C13_Witness ==
    /\ pl_ret = "report"
    /\ Len(pl_report.validations) = 2
    /\ PromisingOfReport = {2}
    /\ Len(pl_report.top_recommendations) = 2

\* C13's other case: a report on validations none of which is promising.
C13_NonePromisingReached ==
    /\ pl_ret = "report"
    /\ Len(pl_report.validations) = 2
    /\ PromisingOfReport = {}

IdsOf(list) == { list[i].id : i \in 1..Len(list) }

\* C16: every ScoutReport returned by run_full_pipeline is referentially
\* closed: every idea has a non-empty source_trends list naming only ids of
\* trends in the report, and every analysis and every validation has an
\* idea_id equal to the id of an idea in the report, with exactly one
\* analysis and exactly one validation per idea.
C16_ReportReferentiallyClosed ==
    pl_ret = "report" =>
        LET ideas == pl_report.ideas_generated
            analyses == pl_report.analyses
            validations == pl_report.validations
        IN  /\ \A i \in 1..Len(ideas) :
                 /\ ideas[i].source_trends # <<>>
                 /\ \A n \in 1..Len(ideas[i].source_trends) :
                      ideas[i].source_trends[n] \in IdsOf(pl_report.trends_found)
                 /\ Cardinality({ a \in 1..Len(analyses) :
                                    analyses[a].idea_id = ideas[i].id }) = 1
                 /\ Cardinality({ v \in 1..Len(validations) :
                                    validations[v].idea_id = ideas[i].id }) = 1
            /\ \A a \in 1..Len(analyses) : analyses[a].idea_id \in IdsOf(ideas)
            /\ \A v \in 1..Len(validations) :
                 validations[v].idea_id \in IdsOf(ideas)

\* C16's case: a report of two ideas whose analyses are in the other order.
C16_Witness ==
    /\ pl_ret = "report"
    /\ Len(pl_report.ideas_generated) = 2
    /\ pl_report.analyses[1].idea_id = pl_report.ideas_generated[2].id
    /\ Len(pl_report.trends_found) > 2

\* The stages of run_full_pipeline in their order.
Stages == << "scan", "generate", "analyze", "validate", "report", "save" >>

\* C17: run_full_pipeline runs its stages in the fixed order scan, generate,
\* analyze, validate, report, each at most once per run and each starting
\* only after the previous one has returned; when the scan returns no
\* trends it returns no report, and none of generate, analyze, validate,
\* report assembly or report saving is performed.
C17_StagesInOrder ==
    /\ Len(pl_log) <= Len(Stages)
    /\ pl_log = SubSeq(Stages, 1, Len(pl_log))
    /\ (pl_log # <<>> /\ pl_trends = <<>>) =>
          /\ pl_log = << "scan" >>
          /\ pl_pc = "returned"
          /\ pl_ret = "None"
          /\ pl_report = NoScoutReport
    /\ pl_ret = "report" => Len(pl_log) >= 5

\* C17's case: the scan found no trend, and the run returned.
C17_Witness ==
    /\ pl_pc = "returned"
    /\ pl_trends = <<>>
    /\ pl_ret = "None"

\* C17's other case: a run through every stage, the saving included.
C17_FullRunReached ==
    /\ pl_pc = "returned"
    /\ pl_log = Stages

\* C14: the scheduled entry point run() returns exit code 0 exactly when
\* configuration validation passes, the pipeline raises no exception and it
\* returns a report; it returns 1 when configuration is missing, when the
\* pipeline returns no report, and when any exception escapes the pipeline
\* (the exception never propagates out of run()).
C14_SchedulerExitCode ==
    en_entry = "scheduler" =>
        /\ ~en_propagated
        /\ en_pc = "exited" =>
             /\ en_exit \in {0, 1}
             /\ en_exit = 0 <=>
                   /\ en_keys.openai \/ en_keys.anthropic
                   /\ ~en_raised
                   /\ pl_ret = "report"

\* C14's case: a stage of the pipeline raised after the scan, and run()
\* returned.
C14_Witness ==
    /\ en_entry = "scheduler"
    /\ en_pc = "exited"
    /\ en_raised
    /\ Len(pl_log) >= 1

\* C14's other cases: run() returned after a pipeline without a report, and
\* after one with a report.
C14_NoReportReached ==
    en_entry = "scheduler" /\ en_pc = "exited" /\ pl_ret = "None"

C14_ReportReached ==
    en_entry = "scheduler" /\ en_pc = "exited" /\ pl_ret = "report"

\* C15: in every entry point that validates configuration (scheduler.run and
\* main.main), when neither OPENAI_API_KEY nor ANTHROPIC_API_KEY is set the
\* run aborts with a non-zero exit before any pipeline stage (scan,
\* generate, analyze, validate, report) has started.
C15_MissingKeysAbortNonZero ==
    (en_pc \notin {"idle", "validate"}
       /\ ~en_keys.openai /\ ~en_keys.anthropic) =>
        /\ en_pc = "exited"
        /\ en_exit # 0
        /\ pl_pc = "idle"
        /\ pl_log = <<>>

\* C15's case: src/main.py without a key ended before any stage, with the
\* exit code 0.
C15_Witness ==
    /\ en_entry = "main"
    /\ en_pc = "exited"
    /\ ~en_keys.openai /\ ~en_keys.anthropic
    /\ en_exit = 0
    /\ pl_log = <<>>

\* What holds of both entry points without a key: no stage of the pipeline
\* starts.
C15_NoStageWithoutKeys ==
    (en_pc \notin {"idle", "validate"}
       /\ ~en_keys.openai /\ ~en_keys.anthropic) =>
        /\ en_pc = "exited"
        /\ pl_pc = "idle"
        /\ pl_log = <<>>

\* A webhook URL is configured for the notifier: as the constructor's
\* argument or in the configuration.
UrlConfigured == Truthy(sl_argument) \/ Truthy(sl_config)

\* C18: a SlackNotifier posts if and only if it is enabled: with no webhook
\* URL configured, notify_pipeline_start, notify_phase, notify_error and
\* notify_report never call _post; with a webhook URL set, each such call
\* performs exactly one HTTP POST of a JSON payload to that URL.
C18_PostsIffEnabled ==
    sl_pc = "constructed" =>
        /\ sl_enabled <=> UrlConfigured
        /\ \A n \in 1..Len(sl_history) :
             IF UrlConfigured
             THEN /\ Len(sl_history[n].requests) = 1
                  /\ sl_history[n].requests[1].url =
                         (IF Truthy(sl_argument) THEN sl_argument ELSE sl_config)
                  /\ sl_history[n].requests[1].content_type = "application/json"
                  /\ sl_history[n].requests[1].data[1] = "json"
             ELSE /\ sl_history[n].post_calls = 0
                  /\ sl_history[n].requests = <<>>

\* C18's case: a notifier without a URL (the argument empty, nothing
\* configured) was called twice.
C18_Witness ==
    /\ sl_pc = "constructed"
    /\ sl_argument = ""
    /\ ~UrlConfigured
    /\ Len(sl_history) = 2
    /\ sl_history[2].call = "notify_report"

\* C18's other case: a notifier with the URL of the configuration posted.
C18_ConfiguredUrlReached ==
    /\ sl_pc = "constructed"
    /\ ~Truthy(sl_argument)
    /\ Len(sl_history) = 2
    /\ Len(sl_history[1].requests) = 1

\* C19: a failed Slack delivery never raises into the caller: when the
\* webhook answers with a non-200 status or the request raises a network
\* error, every notify_* call returns normally and _post returns False;
\* _post returns True only for a 200 response.
C19_FailedDeliveryDoesNotRaise ==
    \A n \in 1..Len(sl_history) :
        /\ ~sl_history[n].raised
        /\ sl_history[n].post_calls = 1 =>
             /\ sl_history[n].outcome # "200" =>
                    sl_history[n].post_result = "False"
             /\ sl_history[n].post_result = "True" =>
                    sl_history[n].outcome = "200"

\* C19's case: the request of a call raised, and that of a later call got a
\* non-200 answer.
C19_Witness ==
    /\ Len(sl_history) = 2
    /\ sl_history[1].post_calls = 1
    /\ sl_history[1].outcome = "RequestException"
    /\ sl_history[2].post_calls = 1
    /\ sl_history[2].outcome = "500"

\* How many of the three credentials are set (not None and not empty).
CredentialsSet ==
    Cardinality({ c \in {"twitter", "reddit", "news"} : Truthy(sc_cfg[c]) })

RanFetcher(fetcher) == \E i \in 1..Len(sc_tasks) : sc_tasks[i] = fetcher

\* C21: WebScannerAgent.scan_all_sources runs the Twitter, the Reddit and
\* the news fetcher exactly when its credential is set, and the Google
\* Trends fetcher always; so the "no sources configured" return is never
\* taken, and with the fetchers returning their lists the result holds 1
\* plus the number of credentials set trends, and is never empty.
C21_FetchersGatedByCredentials ==
    (sc_agent = "web" /\ sc_pc \in {"gather", "done"}) =>
        /\ RanFetcher("twitter") <=> Truthy(sc_cfg.twitter)
        /\ RanFetcher("reddit") <=> Truthy(sc_cfg.reddit)
        /\ RanFetcher("news") <=> Truthy(sc_cfg.news)
        /\ RanFetcher("google_trends")
        /\ Len(sc_tasks) = 1 + CredentialsSet
        /\ sc_pc = "done" => sc_results # <<>>
        /\ (sc_pc = "done" /\ \A i \in 1..Len(sc_outcomes) : ~sc_outcomes[i].failed) =>
             /\ Len(sc_ret) = 1 + CredentialsSet
             /\ sc_ret # <<>>

\* C21's case: a scan with an empty Twitter token, a Reddit client id and
\* no news key has returned.
C21_Witness ==
    /\ sc_agent = "web"
    /\ sc_pc = "done"
    /\ sc_cfg = [ twitter |-> "", reddit |-> "token", news |-> "None" ]
    /\ Len(sc_ret) = 2

\* C21's other case: with no credential at all the scan returns the Google
\* Trends trend.
C21_NoCredentialsReached ==
    /\ sc_agent = "web"
    /\ sc_pc = "done"
    /\ CredentialsSet = 0
    /\ Len(sc_ret) = 1
    /\ sc_ret[1].source = "google_trends"

\* C22: run_public_pipeline, started with GITHUB_TOKEN set, with a scan that
\* yields at least one trend and a generation that yields at least one idea,
\* eventually completes all four phases and writes the report file.
C22_PublicRunSavesReport ==
    [](( /\ pr_pc = "phase3"
         /\ Truthy(pr_env.github_token)
         /\ pr_trends >= 1
         /\ pr_ideas >= 1 ) => <>(pr_pc = "saved" /\ pr_report_file))

\* C22's case: a run with the token, two trends and two ideas went through
\* all four phases and ended in the AttributeError, without a report file.
C22_Witness ==
    /\ pr_pc = "raised"
    /\ Truthy(pr_env.github_token)
    /\ pr_trends = 2
    /\ pr_ideas = 2
    /\ pr_phases = <<"scan", "generate", "analyze", "validate">>
    /\ ~pr_report_file

\* C22, what the code does instead: no run writes the report file.
C22_ReportNeverWritten == pr_pc # "saved" /\ ~pr_report_file

\* C23, as the code has it: clicks is int(impressions * ctr), so that
\* clicks / impressions <= ctr < (clicks + 1) / impressions.
C23_ClicksAreFloorOfCtr ==
    (mm_pc = "returned" /\ mm_result.metrics.impressions > 0) =>
        /\ mm_result.metrics.clicks * 10000
              <= mm_result.metrics.impressions * mm_result.metrics.ctr
        /\ mm_result.metrics.impressions * mm_result.metrics.ctr
              < (mm_result.metrics.clicks + 1) * 10000

\* C23: for every ValidationMetrics the validator generates with
\* impressions > 0, ctr equals clicks / impressions.
C23_CtrIsClicksOverImpressions ==
    (mm_pc = "returned" /\ mm_result.metrics.impressions > 0) =>
        mm_result.metrics.ctr * mm_result.metrics.impressions
            = mm_result.metrics.clicks * 10000

\* C23's case: metrics whose ctr times impressions is no whole number of
\* clicks.
C23_Witness ==
    /\ mm_pc = "returned"
    /\ mm_result.metrics.impressions > 0
    /\ (mm_result.metrics.impressions * mm_result.metrics.ctr) % 10000 # 0

\* C24: for every ValidationMetrics of _generate_mock_metrics (no matching
\* analysis, or one with a viability in [0,10], any draws), 1 <= clicks <=
\* impressions and 0 <= conversions <= clicks; so cpc is budget / clicks and
\* the zero-click branch is never taken.
C24_ClicksAndConversionsBounded ==
    mm_pc = "returned" =>
        /\ 1 <= mm_result.metrics.clicks
        /\ mm_result.metrics.clicks <= mm_result.metrics.impressions
        /\ 0 <= mm_result.metrics.conversions
        /\ mm_result.metrics.conversions <= mm_result.metrics.clicks
        /\ mm_result.metrics.cpc
              = IntDiv(mm_campaign.budget * 10000, mm_result.metrics.clicks)

\* C24's case: the fewest clicks there can be, with a viability of 0, the
\* lowest draws and a gauss value below zero.
C24_Witness ==
    /\ mm_pc = "returned"
    /\ mm_analysis # <<>>
    /\ mm_analysis[1].viability_score = 0
    /\ mm_draw.uniform = 80
    /\ mm_draw.randint = 500
    /\ mm_draw.gauss_ctr < 0
    /\ mm_result.metrics.clicks = 60

\* C30: for an idea validated with a matching analysis whose viability is
\* at least 6.2, a promising verdict never comes with "low" confidence.
C30_PromisingIsNotLowConfidence ==
    ( /\ mm_pc = "returned"
      /\ mm_analysis # <<>>
      /\ mm_analysis[1].viability_score >= 62
      /\ mm_result.is_promising ) =>
        mm_result.confidence_level \in {"medium", "high"}

\* C30's case: a promising verdict at the lowest viability of the analyst,
\* with "medium" confidence.
C30_Witness ==
    /\ mm_pc = "returned"
    /\ mm_analysis # <<>>
    /\ mm_analysis[1].viability_score = 62
    /\ mm_result.is_promising
    /\ mm_result.confidence_level = "medium"

\* C30's premise is needed: with a viability of 0 a promising verdict comes
\* with "low" confidence (fewer than 200 clicks).
C30_LowConfidenceBelowTheAnalystsScores ==
    /\ mm_pc = "returned"
    /\ mm_analysis # <<>>
    /\ mm_analysis[1].viability_score = 0
    /\ mm_result.is_promising
    /\ mm_result.confidence_level = "low"

\* A line is among the lines of a list.
Has(lines, line) == \E i \in 1..Len(lines) : lines[i] = line

\* C26, as the code has it: for a result that is not promising, "Improve ad
\* copy" is recommended exactly when ctr is below 0.015, the verdict's
\* threshold, and "Redesign landing page" exactly when conversion_rate is
\* below 0.03, which is not the verdict's 0.02; a promising result gets
\* neither.  The insights have thresholds of their own: 0.04 and 0.01 on the
\* ctr, 0.08 and 0.03 on the conversion rate.
C26_RecommendationThresholds ==
    mm_pc = "returned" =>
        /\ Has(mm_result.recommendations, "Improve ad copy")
              <=> (~mm_result.is_promising /\ mm_result.metrics.ctr < 150)
        /\ Has(mm_result.recommendations, "Redesign landing page")
              <=> ( /\ ~mm_result.is_promising
                    /\ mm_result.metrics.conversion_rate < 300 )
        /\ Has(mm_result.key_insights, "Strong CTR")
              <=> mm_result.metrics.ctr > 400
        /\ Has(mm_result.key_insights, "Low CTR")
              <=> mm_result.metrics.ctr < 100
        /\ Has(mm_result.key_insights, "High conversion rate")
              <=> mm_result.metrics.conversion_rate > 800
        /\ Has(mm_result.key_insights, "Low conversion rate")
              <=> mm_result.metrics.conversion_rate < 300

\* C26: the recommendations are gated by the thresholds of the verdict: for
\* a result that is not promising, "Improve ad copy" is present exactly when
\* ctr is below 0.015, and "Redesign landing page" exactly when
\* conversion_rate is below 0.02.
C26_SameThresholdsAsVerdict ==
    (mm_pc = "returned" /\ ~mm_result.is_promising) =>
        /\ Has(mm_result.recommendations, "Improve ad copy")
              <=> mm_result.metrics.ctr < 150
        /\ Has(mm_result.recommendations, "Redesign landing page")
              <=> mm_result.metrics.conversion_rate < 200

\* C26's case: a result that is not promising, with a conversion rate that
\* passes the verdict's threshold and still gets "Redesign landing page".
C26_Witness ==
    /\ mm_pc = "returned"
    /\ ~mm_result.is_promising
    /\ mm_result.metrics.conversion_rate >= 200
    /\ mm_result.metrics.conversion_rate < 300
    /\ Has(mm_result.recommendations, "Redesign landing page")

\* The target market of the call mentions one of the words.
TargetMentions(words) ==
    \E word \in words : Contains(word, Lower(sp_target))

\* The case of C25: a market that mentions "b2b", "enterprise" or "business"
\* and none of "developer", "software", "tech".
BusinessMarket ==
    TargetMentions(LinkedInWords) /\ ~TargetMentions(GoogleWords)

\* C25, as the code has it: for such a market _select_platform returns
\* LinkedIn, the enumeration having a LINKEDIN member; and every market gets
\* one of the three platforms.
C25_BusinessMarketsGetLinkedIn ==
    sp_pc = "returned" =>
        /\ sp_platform \in {"meta", "google", "linkedin"}
        /\ BusinessMarket => sp_platform = "linkedin"

\* C25: for an idea whose target market mentions "b2b", "enterprise" or
\* "business" and none of "developer", "software", "tech", _select_platform
\* always evaluates to the Google fallback.
C25_BusinessMarketsGetGoogle ==
    (sp_pc = "returned" /\ BusinessMarket) => sp_platform = "google"

\* C25's case: the generic template's "Businesses and individuals", with
\* students.
C25_Witness ==
    /\ sp_pc = "returned"
    /\ BusinessMarket
    /\ sp_target = TargetPhrases[5] \o <<" ","a","n","d"," ">> \o TargetPhrases[11]
    /\ sp_platform = "linkedin"

\* The number of ideas of the first n calls.
RECURSIVE IdeasOfCalls(_)
IdeasOfCalls(n) ==
    IF n = 0 THEN 0 ELSE IdeasOfCalls(n - 1) + Len(va_calls[n])

\* C27: after any sequence of validate_ideas calls on one agent, its
\* validations (and get_promising_ideas) reflect only the last call, with
\* one result per idea of that call in input order, while its campaigns hold
\* one campaign for every idea of every call so far.
C27_ValidationsOfLastCallOnly ==
    va_calls # <<>> =>
        LET last == va_calls[Len(va_calls)]
        IN  /\ va_validations = va_returned
            /\ Len(va_validations) = Len(last)
            /\ \A i \in 1..Len(last) : va_validations[i].idea_id = last[i].id
            /\ Len(va_campaigns) = IdeasOfCalls(Len(va_calls))
            /\ va_promising.called =>
                 /\ \A k \in 1..Len(va_promising.result) :
                       /\ va_promising.result[k].is_promising
                       /\ \E i \in 1..Len(last) :
                             va_promising.result[k].idea_id = last[i].id
                 /\ Len(va_promising.result)
                       = Cardinality({ i \in 1..Len(va_validations) :
                                         va_validations[i].is_promising })

\* C27's case: a call with two ideas, then one with one promising idea,
\* and get_promising_ideas: three campaigns, one validation.
C27_Witness ==
    /\ Len(va_calls) = 2
    /\ Len(va_calls[1]) = 2
    /\ Len(va_calls[2]) = 1
    /\ Len(va_campaigns) = 3
    /\ Len(va_validations) = 1
    /\ va_promising.called
    /\ Len(va_promising.result) = 1

\* The position among the tasks of the fetcher that made a trend.
TaskOf(trend) == CHOOSE i \in 1..Len(sc_tasks) : sc_tasks[i] = trend.id[1]

\* C28: the list scan_all_sources returns is ordered by the order in which
\* the fetchers were submitted, not by that of their completion: whatever
\* the interleaving, the trends of an earlier fetcher precede those of a
\* later one, each fetcher's in its own order, so the sequence depends on
\* what the fetchers return alone.
C28_OrderedBySubmission ==
    sc_pc = "done" =>
        /\ \A a, b \in 1..Len(sc_ret) :
             a < b =>
                \/ TaskOf(sc_ret[a]) < TaskOf(sc_ret[b])
                \/ /\ TaskOf(sc_ret[a]) = TaskOf(sc_ret[b])
                   /\ sc_ret[a].id[2] < sc_ret[b].id[2]
        /\ sc_ret = SucceededTrends(Len(sc_tasks))

\* C28's case: a later fetcher completed before an earlier one, and both
\* returned trends.
C28_Witness ==
    /\ sc_pc = "done"
    /\ sc_reordered
    /\ \E a, b \in 1..Len(sc_ret) : TaskOf(sc_ret[a]) # TaskOf(sc_ret[b])

\* The input trends that have a first keyword no earlier input trend has.
FirstOccurrences ==
    { i \in 1..Len(tg_trends) :
        /\ tg_trends[i].keywords # <<>>
        /\ \A j \in 1..(i - 1) :
             \/ tg_trends[j].keywords = <<>>
             \/ tg_trends[j].keywords[1] # tg_trends[i].keywords[1] }

\* The n-th distinct first keyword, in order of first occurrence.
NthFirstKeyword(n) ==
    LET i == CHOOSE i \in FirstOccurrences :
                 Cardinality({ k \in FirstOccurrences : k <= i }) = n
    IN  tg_trends[i].keywords[1]

\* The ids of the input trends with this first keyword, in input order.
IdsSharing(theme) ==
    TrendIds(SelectSeq(tg_trends,
                 LAMBDA t : t.keywords # <<>> /\ t.keywords[1] = theme))

\* C29: the template generator returns one idea per distinct first keyword,
\* for the first max_ideas of them in order of first occurrence in the input;
\* an idea's source_trends are all input trends with that first keyword, no
\* trend is in two ideas, and a trend without keywords is in none.
C29_OneIdeaPerFirstKeyword ==
    tg_pc = "done" =>
        /\ Len(tg_ret) = Min(tg_max, Cardinality(FirstOccurrences))
        /\ \A n \in 1..Len(tg_ret) :
             /\ tg_ret[n].theme = NthFirstKeyword(n)
             /\ tg_ret[n].source_trends = IdsSharing(NthFirstKeyword(n))
        /\ \A n, m \in 1..Len(tg_ret) :
             n # m =>
                \A a \in 1..Len(tg_ret[n].source_trends),
                   b \in 1..Len(tg_ret[m].source_trends) :
                   tg_ret[n].source_trends[a] # tg_ret[m].source_trends[b]
        /\ \A i \in 1..Len(tg_trends) :
             tg_trends[i].keywords = <<>> =>
                \A n \in 1..Len(tg_ret) :
                   \A a \in 1..Len(tg_ret[n].source_trends) :
                      tg_ret[n].source_trends[a] # tg_trends[i].id

\* C29's case: three trends, two sharing the first keyword "AI" around one
\* of more engagement with another first keyword, and max_ideas = 1: the one
\* idea is that of "AI" with both its trends.
C29_Witness ==
    /\ tg_pc = "done"
    /\ tg_max = 1
    /\ TrendIds(tg_trends) = <<"t1", "t3", "t4">>
    /\ Len(tg_ret) = 1
    /\ tg_ret[1].theme = "AI"
    /\ tg_ret[1].source_trends = <<"t1", "t4">>

\* C29's other case: a trend without keywords among the input, left out of
\* the two ideas made.
C29_TrendWithoutKeywordsReached ==
    /\ tg_pc = "done"
    /\ TrendIds(tg_trends) = <<"t3", "t2", "t1">>
    /\ Len(tg_ret) = 2
    /\ tg_ret[1].source_trends = <<"t3">>
    /\ tg_ret[2].source_trends = <<"t1">>

====
